---------------------------- MODULE Spec2Model ----------------------------
(***************************************************************************)
(* Particle animation and narrative engine of the "In and Out" scrolly     *)
(* (main.js and detention_journey.js, both in www/detention_journey.js,     *)
(* and timeline.js).                                                       *)
(*                                                                         *)
(* Numbers.  A phase (progress, startOffset, speed) is a fixed-point       *)
(* number with ONE units to 1.0.  A latitude or longitude is counted in    *)
(* 1/DegScale degrees, a distance in metres.  An opacity is counted in     *)
(* tenths.                                                                 *)
(*                                                                         *)
(* The three scripts share no variable: `script` names the one a           *)
(* behaviour exercises, the other two stay in their initial state.         *)
(***************************************************************************)
EXTENDS Integers, Sequences, FiniteSets, TLC

VARIABLES
    script,                   \* which script of the page this behaviour runs
    \* ---- main.js (removal flows map)
    mapPhase,                 \* "init" | "loading" | "countries" | "loaded": the 'load' handler
    canvasSize,               \* the size resizeCanvas / resizeDetentionCanvas gave the canvas
    canvas,                   \* canvas and ctx exist (createCanvasOverlay ran)
    allFlows,                 \* let allFlows
    particles,                \* let particles
    countryRemovalData,       \* let countryRemovalData
    animationActive,          \* let animationActive
    rafPending,               \* pending requestAnimationFrame(drawParticles) callbacks
    selectedCountryName,      \* let selectedCountryName
    drawn,                    \* indices of the particles drawn on the last frame
    topDestinations,          \* let topDestinations
    interactive,              \* the map's pan/zoom handlers are enabled
    camera,                   \* the target of the last map.flyTo / fitBounds
    overlayActive,            \* let overlayActive
    overlayVisible,           \* 'visibility' of the destination layers is 'visible'
    countriesActive,          \* let countriesActive
    layersVisible,            \* 'visibility' of the country layers is 'visible'
    hoveredCountryName,       \* let hoveredCountryName
    countryTooltip,           \* what countryTooltip shows: "hidden", "data", "noData"
    hoverState,               \* the countries whose feature-state hover is true
    exitTransition,           \* '#scrolly article': "none", "exiting" (the class), "faded" (the cards)
    \* ---- detention_journey.js
    detPhase,                 \* "start" | "aborted" | "mapInit" | "ready" | "crashed"
    detentionFlows,           \* let detentionFlows
    detentionStatistics,      \* let detentionStatistics
    detentionData,            \* const data = await loadDetentionData()
    detentionParticles,       \* let detentionParticles
    detentionAnimationActive, \* let detentionAnimationActive
    detRafPending,            \* pending requestAnimationFrame(drawDetentionParticles) callbacks
    stopBackgroundParticles,  \* let stopBackgroundParticles
    detDrawn,                 \* indices of the detention particles drawn on the last frame
    detentionHighlights,      \* let detentionHighlights: the number of its entries
    currentHighlight,         \* let currentHighlight
    animatedPoints,           \* let animatedPoints: visible, currentSegment, progress
    detInteractive,           \* the detention map's pan/zoom handlers are enabled
    detCamera,                \* the target of the last detentionMap.flyTo / fitBounds
    dataSourcesOverlay,       \* '#data-sources-overlay' has the class 'active'
    detExitTransition,        \* '#detention-section article': "none", "exiting", "faded"
    \* ---- timeline.js
    timelinePhase,            \* "start" | "rendered" | "error"
    currentCountry,           \* the value of '#country-select' last rendered
    trumpMarkerVisible,       \* the marker of the inauguration is drawn
    timelineActive,           \* index of the step with the class 'is-active', -1 if none
    timelineFilter,           \* '#timeline-filter' has the class 'visible'
    timelineSection,          \* the last isIntersecting of '#timeline-section'
    timelineLine,             \* the step the scroller's offset line is in, -1 above the
                              \* first step, TimelineSteps below the last
    timelinePending,          \* step events of the last scroll not yet delivered
    \* ---- environment
    rng,                      \* state of the generator behind Math.random()
    fetched,                  \* resource name -> number of fetch() calls made for it
    served,                   \* resource name -> what the server answered
    consoleErrors,            \* console.error was called by the script
    domMessage,               \* text put into the page for the user ("" = none)
    timers,                   \* the pending setTimeout callbacks
    \* ---- observers (no program state)
    frames,                   \* frames that advanced the particles since they were built
    wrapped,                  \* indices of the particles that wrapped at least once
    everDrawn,                \* indices of the particles drawn on some frame so far
    lastKey,                  \* the key of the last filter call
    clickedCountry,           \* the destination the last click selected, if a step has not reset it
    currentStep,              \* the step of the last step-enter event
    previousStep,             \* the step of the step-enter event before it
    exits,                    \* the last downward exit of the terminal step and what followed it
    aborted,                  \* an exception has left a frame of the animation loop
    onceState                 \* what the first of the calls with that key left, and their number

mapNarr  == <<topDestinations, interactive, camera, overlayActive, overlayVisible, countriesActive,
              layersVisible, hoveredCountryName, countryTooltip, hoverState, exitTransition>>
mapVars  == <<mapPhase, canvas, allFlows, particles, countryRemovalData,
              animationActive, rafPending, selectedCountryName, drawn, mapNarr>>
detNarr  == <<detentionHighlights, currentHighlight, animatedPoints, detInteractive,
              detCamera, dataSourcesOverlay, detExitTransition>>
detVars  == <<detPhase, detentionFlows, detentionStatistics, detentionData,
              detentionParticles,
              detentionAnimationActive, detRafPending, stopBackgroundParticles,
              detDrawn, detNarr>>
tlVars   == <<timelinePhase, currentCountry, trumpMarkerVisible, timelineActive, timelineFilter,
              timelineSection, timelineLine, timelinePending>>
envVars  == <<rng, fetched, served, consoleErrors, domMessage, timers, canvasSize>>
stepObs  == <<currentStep, previousStep, exits, aborted>>
obsVars  == <<frames, wrapped, everDrawn, lastKey, clickedCountry, onceState, stepObs>>
vars     == <<script, mapVars, detVars, tlVars, envVars, obsVars>>

-----------------------------------------------------------------------------
(* Scales and program constants *)

\* fixed-point resolution of a phase
ONE == 10000
\* and of a degree
DegScale == ONE

\* const SPEED_FACTOR = 0.0009
SPEED_FACTOR == 9
\* const DETENTION_SPEED_FACTOR = 0.005
DETENTION_SPEED_FACTOR == 50
\* const TRANSFERS_PER_PARTICLE = 50
TRANSFERS_PER_PARTICLE == 50
\* const MAX_PARTICLES_PER_ROUTE = 15
MAX_PARTICLES_PER_ROUTE == 15
\* if (distance < 1) return;      (kilometres, here metres)
MAP_MIN_DISTANCE == 1000
\* if (distance < 0.1) return;
DETENTION_MIN_DISTANCE == 100
\* .slice(0, 5)
SEGMENT_ANIMATION_SPEED == 200
TOP_ORIGINS == 5

Abs(x) == IF x < 0 THEN 0 - x ELSE x
Min(a, b) == IF a < b THEN a ELSE b
Max(a, b) == IF a < b THEN b ELSE a
\* Math.ceil(a / b) for a >= 0, b > 0
CeilDiv(a, b) == (a + b - 1) \div b

-----------------------------------------------------------------------------
(* JavaScript values that reach a coordinate or a count *)

JsNum(n)    == [n |-> n, t |-> "number"]
JsUndefined == [n |-> 0, t |-> "undefined"]
JsNaN       == [n |-> 0, t |-> "NaN"]

\* ToBoolean(v): 0, NaN and undefined are falsy
Truthy(v) == v.t = "number" /\ v.n # 0

\* v || d
JsOr(v, d) == IF Truthy(v) THEN v ELSE d

\* an endpoint of a flow record; present = FALSE is a missing origin/destination
Endpoint(lat, lon, name) == [lat |-> lat, lon |-> lon, name |-> name, present |-> TRUE]
NoEndpoint == [lat |-> JsUndefined, lon |-> JsUndefined, name |-> "", present |-> FALSE]

Flow(o, d, count, scaled) ==
    [count |-> count, isNull |-> FALSE, origin |-> o, destination |-> d,
     scaled_count |-> scaled]
\* a null entry of the JSON array
NullFlow ==
    [count |-> 0, isNull |-> TRUE, origin |-> NoEndpoint, destination |-> NoEndpoint,
     scaled_count |-> JsUndefined]

-----------------------------------------------------------------------------
(* Geometry (turf.js) *)

\* turf.distance(start, end): the haversine distance.  For two points of one
\* meridian it is R * |dlat| with R = 6371.0088 km, 111.195 m per 1/1000 degree;
\* the flows of the model join points of one meridian.
turfDistance(start, end) ==
    LET d == Abs(start.lat.n - end.lat.n)
    IN  (d \div DegScale) * 111195 + ((d % DegScale) * 111195) \div DegScale

\* turf.greatCircle(point(start), point(end)): the arc, kept as its two ends
turfGreatCircle(start, end) == <<start, end>>

-----------------------------------------------------------------------------
(* Math.random() *)

\* a generator whose range includes 1
RandomStream_Closed == <<0, (99 * ONE) \div 100, ONE \div 2, ONE, ONE \div 3, 1>>

\* The values the generator hands out, in turn; the seed is the place in the
\* stream where a page load starts.  All are in [0, 1).
RandomStream == <<0, (99 * ONE) \div 100, ONE \div 2, ONE - 1, ONE \div 3, 1>>

\* the value of the k-th call (k = 0, 1, ...) made from generator state r
RandomAt(r, k) == RandomStream[((r - 1 + k) % Len(RandomStream)) + 1]
\* the generator state after n calls
RandomAfter(r, n) == ((r - 1 + n) % Len(RandomStream)) + 1

-----------------------------------------------------------------------------
(* main.js: createParticles *)

\* a builder that skips coincident endpoints only
createParticlesSkips_NoEpsilon(flow) ==
    \/ ~Truthy(flow.origin.lat) \/ ~Truthy(flow.origin.lon)
    \/ ~Truthy(flow.destination.lat) \/ ~Truthy(flow.destination.lon)
    \/ (flow.origin.lat = flow.destination.lat /\ flow.origin.lon = flow.destination.lon)

\* the early returns of the forEach body: a falsy coordinate, coincident
\* endpoints, or endpoints less than 1 km apart
createParticlesSkips(flow) ==
    \/ ~Truthy(flow.origin.lat) \/ ~Truthy(flow.origin.lon)
    \/ ~Truthy(flow.destination.lat) \/ ~Truthy(flow.destination.lon)
    \/ (flow.origin.lat = flow.destination.lat /\ flow.origin.lon = flow.destination.lon)
    \/ turfDistance(flow.origin, flow.destination) < MAP_MIN_DISTANCE

\* const numParticles = flow.scaled_count || 1, and the number of turns of
\* for (let i = 0; i < numParticles; i++)
createParticlesNum(flow) == Max(0, JsOr(flow.scaled_count, JsNum(1)).n)

\* a builder that places a new particle at its startOffset
createParticlesNew_AtStartOffset(flow, flowIndex, i, startOffset) ==
    [flowIndex |-> flowIndex,
     startOffset |-> startOffset,
     line |-> turfGreatCircle(flow.origin, flow.destination),
     distance |-> turfDistance(flow.origin, flow.destination),
     progress |-> startOffset,
     speed |-> SPEED_FACTOR,
     particleIndex |-> i,
     destinationName |-> flow.destination.name,
     filtered |-> FALSE,
     opacity |-> 10,
     color |-> "red"]

\* the object pushed for particle i of a flow
createParticlesNew(flow, flowIndex, i, startOffset) ==
    [flowIndex |-> flowIndex,
     startOffset |-> startOffset,
     line |-> turfGreatCircle(flow.origin, flow.destination),
     distance |-> turfDistance(flow.origin, flow.destination),
     progress |-> 0,
     speed |-> SPEED_FACTOR,
     particleIndex |-> i,
     destinationName |-> flow.destination.name,
     filtered |-> FALSE,
     opacity |-> 10,
     color |-> "red"]

RECURSIVE createParticlesFrom(_, _, _, _)
createParticlesFrom(flows, k, acc, r) ==
    IF k > Len(flows) THEN [particles |-> acc, rng |-> r]
    ELSE LET flow == flows[k]
             n == IF createParticlesSkips(flow) THEN 0 ELSE createParticlesNum(flow)
             new == [i \in 1..n |->
                        createParticlesNew(flow, k - 1, i - 1, RandomAt(r, i - 1))]
         IN  createParticlesFrom(flows, k + 1, acc \o new, RandomAfter(r, n))

\* a build whose collection is published before its last particle is pushed
createParticles_Partial(flows, r) ==
    LET full == createParticlesFrom(flows, 1, <<>>, r)
    IN  [particles |-> SubSeq(full.particles, 1, Len(full.particles) - 1),
         rng |-> full.rng]

\* createParticles(flows), with the generator state before and after
createParticles(flows, r) == createParticlesFrom(flows, 1, <<>>, r)

-----------------------------------------------------------------------------
(* detention_journey.js: createDetentionParticles *)

createDetentionSkips(flow) ==
    \/ ~flow.origin.present \/ ~flow.destination.present
    \/ ~Truthy(flow.origin.lat) \/ ~Truthy(flow.origin.lon)
    \/ ~Truthy(flow.destination.lat) \/ ~Truthy(flow.destination.lon)
    \/ (flow.origin.lat = flow.destination.lat /\ flow.origin.lon = flow.destination.lon)
    \/ turfDistance(flow.origin, flow.destination) < DETENTION_MIN_DISTANCE

\* a scaling without the per-route maximum
createDetentionNum_Uncapped(flow) ==
    Max(1, CeilDiv(flow.count, TRANSFERS_PER_PARTICLE))

\* Math.min(MAX_PARTICLES_PER_ROUTE, Math.max(1, Math.ceil(flow.count / TRANSFERS_PER_PARTICLE)))
createDetentionNum(flow) ==
    Min(MAX_PARTICLES_PER_ROUTE, Max(1, CeilDiv(flow.count, TRANSFERS_PER_PARTICLE)))

\* the object pushed for particle p of numParticles
createDetentionNew(flow, flowIndex, p, numParticles) ==
    [flowIndex |-> flowIndex,
     startOffset |-> (p * ONE) \div numParticles,
     line |-> turfGreatCircle(flow.origin, flow.destination),
     distance |-> turfDistance(flow.origin, flow.destination),
     progress |-> (p * ONE) \div numParticles,
     speed |-> DETENTION_SPEED_FACTOR,
     type |-> "background"]

RECURSIVE createDetentionFrom(_, _, _)
createDetentionFrom(flows, k, acc) ==
    IF k > Len(flows) THEN acc
    ELSE LET flow == flows[k]
             n == IF createDetentionSkips(flow) THEN 0 ELSE createDetentionNum(flow)
             new == [p \in 1..n |-> createDetentionNew(flow, k - 1, p - 1, n)]
         IN  createDetentionFrom(flows, k + 1, acc \o new)

createDetentionParticles(flows) == createDetentionFrom(flows, 1, <<>>)

-----------------------------------------------------------------------------
(* The server: what a fetch() of a resource, followed by .json(), yields *)

Resources == {"flow_data", "world_countries", "detention_flows", "detention_highlights",
              "detention_statistics", "timeline_data", "timeline_data_by_country"}

\* ok    : the fetch resolved and the body parsed as JSON
\* flows : the flow records of the body (flow resources)
\* items : the number of entries of the body's list (highlights, timeline data)
\* stats : "full" | "bare" | "null": the statistics body has overall_stats,
\*         lacks it, or is the JSON value null
Answer(ok, flows, items, stats) ==
    [flows |-> flows, ok |-> ok, items |-> items, stats |-> stats]
Failure == Answer(FALSE, <<>>, 0, "null")
NotAsked == Answer(FALSE, <<>>, 0, "none")

-----------------------------------------------------------------------------
(* main.js: loadData *)

\* the predicate of allFlows.filter(...)
loadDataKeeps(f) ==
    /\ f.origin.present /\ Truthy(f.origin.lat) /\ Truthy(f.origin.lon)
    /\ f.destination.present /\ Truthy(f.destination.lat) /\ Truthy(f.destination.lon)

\* The value loadData() resolves to, and whether its catch branch ran
\* (console.error("Error loading data:", error)).  Reading f.origin of a null
\* entry throws inside the try block.
loadData(answer) ==
    IF ~answer.ok \/ (\E k \in 1..Len(answer.flows) : answer.flows[k].isNull)
    THEN [flows |-> <<>>, error |-> TRUE]
    ELSE [flows |-> SelectSeq(answer.flows, loadDataKeeps), error |-> FALSE]

-----------------------------------------------------------------------------
(* detention_journey.js: loadDetentionData *)

\* Promise.all of the three fetches, the three .json() calls, the assignments
\* to the globals, and the console.log lines: the last of them reads
\* detentionStatistics.overall_stats.avg_transfer_distance_miles and throws when
\* the statistics body is null or has no overall_stats.
loadDetentionDataThrows(aFlows, aHigh, aStats) ==
    \/ ~aFlows.ok \/ ~aHigh.ok \/ ~aStats.ok
    \/ aStats.stats # "full"

\* the value loadDetentionData() resolves to
loadDetentionData(aFlows, aHigh, aStats) ==
    IF loadDetentionDataThrows(aFlows, aHigh, aStats)
    THEN [flows |-> <<>>, error |-> TRUE, highlights |-> 0, statistics |-> "null"]
    ELSE [flows |-> aFlows.flows, error |-> FALSE,
          highlights |-> aHigh.items, statistics |-> aStats.stats]

-----------------------------------------------------------------------------
(* main.js: aggregateFlowsByDestination *)

\* A JavaScript object used as a map is kept as the sequence of its entries in
\* the order the keys were created.

\* the place of key `name` in `entries`, 0 when the object has no such key
KeyIndex(entries, key, name) ==
    IF \E k \in 1..Len(entries) : entries[k][key] = name
    THEN CHOOSE k \in 1..Len(entries) : entries[k][key] = name
    ELSE 0

\* The value of a key that is a canonical array index ("2", "10"), else -1.
\* The names of the model that are such keys are listed here.
ArrayIndex(name) ==
    CASE name = "2" -> 2
      [] name = "10" -> 10
      [] OTHER -> 0 - 1

\* Object.keys(obj): the array-index keys in ascending numeric order, then the
\* other keys in the order they were created
RECURSIVE InsertByIndex(_, _, _)
InsertByIndex(sorted, e, key) ==
    IF sorted = <<>> THEN <<e>>
    ELSE IF ArrayIndex(e[key]) < ArrayIndex(Head(sorted)[key])
         THEN <<e>> \o sorted
         ELSE <<Head(sorted)>> \o InsertByIndex(Tail(sorted), e, key)

RECURSIVE SortByIndex(_, _)
SortByIndex(entries, key) ==
    IF entries = <<>> THEN <<>>
    ELSE InsertByIndex(SortByIndex(Tail(entries), key), Head(entries), key)

IsIndexKey(e) == ArrayIndex(e.name) >= 0
IsNameKey(e) == ArrayIndex(e.name) < 0

\* keys in the order they were created, whatever they look like
ObjectKeys_CreationOrder(entries) == entries

ObjectKeys(entries) ==
    SortByIndex(SelectSeq(entries, IsIndexKey), "name") \o SelectSeq(entries, IsNameKey)

\* ((count / total) * 100).toFixed(1), in tenths of a percent; 0 / 0 is NaN
toFixed1(count, total) ==
    IF total = 0 THEN JsNaN
    ELSE JsNum((2000 * count + total) \div (2 * total))

\* a sort that puts the smaller counts first
InsertByCount_Ascending(sorted, e) ==
    IF sorted = <<>> THEN <<e>>
    ELSE IF Head(sorted).count > e.count
         THEN <<e>> \o sorted
         ELSE <<Head(sorted)>> \o <<e>> \o Tail(sorted)

\* .sort((a, b) => b.count - a.count): Array.prototype.sort is stable, so an
\* element goes behind every element that does not have a smaller count
RECURSIVE InsertByCount(_, _)
InsertByCount(sorted, e) ==
    IF sorted = <<>> THEN <<e>>
    ELSE IF Head(sorted).count < e.count
         THEN <<e>> \o sorted
         ELSE <<Head(sorted)>> \o InsertByCount(Tail(sorted), e)

RECURSIVE SortByCount(_, _)
SortByCount(done, rest) ==
    IF rest = <<>> THEN done
    ELSE SortByCount(InsertByCount(done, Head(rest)), Tail(rest))

\* .slice(0, n)
Slice0(seq, n) == SubSeq(seq, 1, Min(n, Len(seq)))

\* the body of flows.forEach(flow => ...), on the entries gathered so far
aggregateFlow(aggregated, flow) ==
    IF ~flow.destination.present \/ flow.destination.name = "" THEN aggregated
    ELSE
      LET destName == flow.destination.name
          withDest == IF KeyIndex(aggregated, "destination", destName) = 0
                      THEN Append(aggregated,
                                  [destination |-> destName, total |-> 0,
                                   origins |-> <<>>, top_origins |-> <<>>])
                      ELSE aggregated
          d == KeyIndex(withDest, "destination", destName)
          entry == withDest[d]
          originName == flow.origin.name
          withOrigin == IF KeyIndex(entry.origins, "name", originName) = 0
                        THEN Append(entry.origins, [name |-> originName, count |-> 0])
                        ELSE entry.origins
          o == KeyIndex(withOrigin, "name", originName)
          origins == IF flow.origin.present /\ originName # ""
                     THEN [withOrigin EXCEPT ![o].count = @ + flow.count]
                     ELSE entry.origins
      IN  [withDest EXCEPT ![d] = [entry EXCEPT !.total = @ + flow.count,
                                                !.origins = origins]]

RECURSIVE aggregateFlows(_, _)
aggregateFlows(aggregated, flows) ==
    IF flows = <<>> THEN aggregated
    ELSE aggregateFlows(aggregateFlow(aggregated, Head(flows)), Tail(flows))

\* "Convert origins to sorted array": top_origins of one destination
topOrigins(entry) ==
    LET keys == ObjectKeys(entry.origins)
        mapped == [k \in 1..Len(keys) |->
                     [name |-> keys[k].name, count |-> keys[k].count,
                      percent |-> toFixed1(keys[k].count, entry.total)]]
    IN  Slice0(SortByCount(<<>>, mapped), TOP_ORIGINS)

\* aggregateFlowsByDestination(flows): the entries of the returned object
aggregateFlowsByDestination(flows) ==
    LET aggregated == aggregateFlows(<<>>, flows)
    IN  [d \in 1..Len(aggregated) |->
            [aggregated[d] EXCEPT !.top_origins = topOrigins(aggregated[d])]]

-----------------------------------------------------------------------------
(* main.js: filterParticlesByDestination *)

\* the argument: undefined, null or a destination name
KeyUndefined == [t |-> "undefined", s |-> ""]
KeyNull      == [t |-> "null", s |-> ""]
KeyName(s)   == [t |-> "string", s |-> s]

\* a filter that treats null as a name no particle has
filterParticle_NullAsName(p, key) ==
    IF key.t = "undefined"
    THEN [p EXCEPT !.filtered = FALSE, !.opacity = 10, !.color = "red"]
    ELSE LET f == key.t = "null" \/ p.destinationName # key.s
         IN  [p EXCEPT !.filtered = f,
                       !.opacity = IF f THEN 5 ELSE 10,
                       !.color = IF f THEN "gray" ELSE "red"]

\* a filter that sends a dimmed particle back to the start of its path
filterParticle_Restart(p, key) ==
    IF key.t = "undefined"
    THEN [p EXCEPT !.filtered = FALSE, !.opacity = 10, !.color = "red"]
    ELSE IF key.t = "null"
    THEN [p EXCEPT !.filtered = TRUE, !.opacity = 2, !.color = "gray", !.progress = 0]
    ELSE LET f == p.destinationName # key.s
         IN  [p EXCEPT !.filtered = f,
                       !.opacity = IF f THEN 5 ELSE 10,
                       !.color = IF f THEN "gray" ELSE "red",
                       !.progress = IF f THEN 0 ELSE p.progress]

\* a filter that dims a non-matching particle a step further on every call
filterParticle_Cumulative(p, key) ==
    IF key.t = "undefined"
    THEN [p EXCEPT !.filtered = FALSE, !.opacity = 10, !.color = "red"]
    ELSE IF key.t = "null"
    THEN [p EXCEPT !.filtered = TRUE, !.opacity = 2, !.color = "gray"]
    ELSE LET f == p.destinationName # key.s
         IN  [p EXCEPT !.filtered = f,
                       !.opacity = IF f THEN p.opacity \div 2 ELSE 10,
                       !.color = IF f THEN "gray" ELSE "red"]

\* a filter that restores nothing when the key is undefined
filterParticle_NoRestore(p, key) ==
    IF key.t = "undefined"
    THEN p
    ELSE IF key.t = "null"
    THEN [p EXCEPT !.filtered = TRUE, !.opacity = 2, !.color = "gray"]
    ELSE LET f == p.destinationName # key.s
         IN  [p EXCEPT !.filtered = f,
                       !.opacity = IF f THEN 5 ELSE 10,
                       !.color = IF f THEN "gray" ELSE "red"]

\* the body of particles.forEach(p => ...)
filterParticle(p, key) ==
    IF key.t = "undefined"
    THEN [p EXCEPT !.filtered = FALSE, !.opacity = 10, !.color = "red"]
    ELSE IF key.t = "null"
    THEN [p EXCEPT !.filtered = TRUE, !.opacity = 2, !.color = "gray"]
    ELSE LET f == p.destinationName # key.s
         IN  [p EXCEPT !.filtered = f,
                       !.opacity = IF f THEN 5 ELSE 10,
                       !.color = IF f THEN "gray" ELSE "red"]

\* a filter that rebuilds the collection from the matching particles
filterParticlesByDestination_Rebuild(ps, selected, hasCanvas, key) ==
    IF ~hasCanvas \/ Len(ps) = 0
    THEN [particles |-> ps, selected |-> selected]
    ELSE [particles |-> SelectSeq(ps, LAMBDA p : ~filterParticle(p, key).filtered),
          selected |-> key]

\* filterParticlesByDestination(destinationName): the new values of
\* particles and selectedCountryName
filterParticlesByDestination(ps, selected, hasCanvas, key) ==
    IF ~hasCanvas \/ Len(ps) = 0
    THEN [particles |-> ps, selected |-> selected]
    ELSE [particles |-> [k \in 1..Len(ps) |-> filterParticle(ps[k], key)],
          selected |-> key]

-----------------------------------------------------------------------------
(* The per-frame loops: drawParticles and drawDetentionParticles *)

\* a loop that restarts every cycle at 0
drawParticlesAdvance_ResetToZero(p) ==
    LET q == p.progress + p.speed
    IN  [p EXCEPT !.progress = IF q >= ONE THEN 0 ELSE q]

\* p.progress += p.speed; if (p.progress >= 1) p.progress = p.startOffset;
drawParticlesAdvance(p) ==
    LET q == p.progress + p.speed
    IN  [p EXCEPT !.progress = IF q >= ONE THEN p.startOffset ELSE q]

\* if (p.progress >= p.startOffset) { ... ctx.fill() }
drawParticlesDraws(p) == p.progress >= p.startOffset

\* an increment scaled by the time since the last frame, on a frame that
\* took twice the usual time
drawDetentionAdvance_ScaledByTime(p) ==
    LET q == p.progress + 2 * p.speed
    IN  [p EXCEPT !.progress = IF q >= ONE THEN p.startOffset ELSE q]

\* the same two steps of drawDetentionParticles
drawDetentionAdvance(p) ==
    LET q == p.progress + p.speed
    IN  [p EXCEPT !.progress = IF q >= ONE THEN p.startOffset ELSE q]

drawDetentionDraws(p) == p.progress >= p.startOffset

\* the particles that the increment of this frame takes to 1 or beyond
Wrapping(ps) == {k \in 1..Len(ps) : ps[k].progress + ps[k].speed >= ONE}

\* drawParticles(), called with animationActive = active while `pending` other
\* frame requests are outstanding.  Without a canvas it returns at once and
\* requests no frame.  `bad` are the particles for which turf.along or
\* map.project throws on this frame: the catch block skips their drawing.
drawParticles(active, pending, bad) ==
    IF active /\ canvas
    THEN /\ particles' = [k \in 1..Len(particles) |-> drawParticlesAdvance(particles[k])]
         /\ drawn' = {k \in 1..Len(particles) : drawParticlesDraws(particles'[k])} \ bad
         /\ rafPending' = pending + 1
         /\ frames' = frames + 1
         /\ wrapped' = wrapped \cup Wrapping(particles)
         /\ everDrawn' = everDrawn \cup drawn'
    ELSE /\ rafPending' = pending
         /\ UNCHANGED <<particles, drawn, frames, wrapped, everDrawn>>

\* stops on the path of a highlighted person
PathStops == 3

Persons == {"person1", "person2"}
PersonIndex(personKey) == IF personKey = "person1" THEN 0 ELSE 1

\* an entry of animatedPoints; pulsePhase and trail only shape the glow
AnimatedPoint(visible, currentSegment, progress) ==
    [progress |-> progress, visible |-> visible, currentSegment |-> currentSegment]

resetAnimatedPoint(point) == AnimatedPoint(FALSE, 0, 0)

startPersonAnimation(point) == [resetAnimatedPoint(point) EXCEPT !.visible = TRUE]

\* const person = detentionHighlights[personIndex];
\* if (!person || !person.path || person.path.length < 2) return;
HasPath(highlights, personKey) == PersonIndex(personKey) < highlights /\ PathStops >= 2

\* an update that goes on to the segment after the last one
updateAnimatedPoint_Unclamped(point, highlights, personKey) ==
    IF ~point.visible \/ ~HasPath(highlights, personKey) THEN point
    ELSE LET q == point.progress + SEGMENT_ANIMATION_SPEED
         IN  IF q < ONE THEN [point EXCEPT !.progress = q]
             ELSE [point EXCEPT !.currentSegment = @ + 1, !.progress = 0]

\* updateAnimatedPoints: one entry, along a path of PathStops stops
updateAnimatedPoint(point, highlights, personKey) ==
    IF ~point.visible \/ ~HasPath(highlights, personKey) THEN point
    ELSE LET q == point.progress + SEGMENT_ANIMATION_SPEED
         IN  IF q < ONE THEN [point EXCEPT !.progress = q]
             ELSE IF point.currentSegment + 1 >= PathStops - 1
                  THEN [point EXCEPT !.currentSegment = PathStops - 2, !.progress = ONE]
                  ELSE [point EXCEPT !.currentSegment = @ + 1, !.progress = 0]

\* an update that starts the journey again when it arrives
updateAnimatedPoints_Looping(points, highlights) ==
    [personKey \in Persons |->
        LET point == updateAnimatedPoint(points[personKey], highlights, personKey)
        IN  IF point.progress = ONE THEN startPersonAnimation(point) ELSE point]

\* ['person1', 'person2'].forEach(...)
updateAnimatedPoints(points, highlights) ==
    [personKey \in Persons |-> updateAnimatedPoint(points[personKey], highlights, personKey)]

\* updateDetentionCounter: the k of 'Detention k of n' for a visible point on
\* a path of PathStops stops
updateDetentionCounter(point) ==
    (IF 2 * point.progress < ONE
     THEN point.currentSegment
     ELSE Min(point.currentSegment + 1, PathStops - 1)) + 1

\* the entries drawAnimatedPoints computes a position for
drawAnimatedPointsReaches(points, highlights) ==
    {personKey \in Persons :
        /\ points[personKey].visible
        /\ HasPath(highlights, personKey)
        /\ points[personKey].currentSegment < PathStops - 1}

\* drawAnimatedPoints has no try block: turf.distance, turf.along or
\* detentionMap.project throwing for one of `badPoints` leaves the function and
\* its caller
drawAnimatedPointsThrows(points, highlights, badPoints) ==
    drawAnimatedPointsReaches(points, highlights) \cap badPoints # {}

\* drawDetentionParticles(), called with detentionAnimationActive = active and
\* stopBackgroundParticles = stop while `pending` other frame requests are
\* outstanding, and animatedPoints = points.  The canvas exists whenever a step
\* handler can run: the scroller is set up after
\* createDetentionCanvasOverlay().  `bad` are the background
\* particles and `badPoints` the animated points whose position cannot be
\* computed or projected on this frame.  `frames` counts the frames that moved
\* a particle or a point.
drawDetentionParticles(active, stop, pending, points, bad, badPoints) ==
    IF active /\ detPhase = "ready"
    THEN /\ IF stop
            THEN /\ detDrawn' = {}
                 /\ UNCHANGED <<detentionParticles, wrapped, everDrawn>>
            ELSE /\ detentionParticles' =
                      [k \in 1..Len(detentionParticles) |->
                          drawDetentionAdvance(detentionParticles[k])]
                 /\ detDrawn' = {k \in 1..Len(detentionParticles) :
                                    drawDetentionDraws(detentionParticles'[k])} \ bad
                 /\ wrapped' = wrapped \cup Wrapping(detentionParticles)
                 /\ everDrawn' = everDrawn \cup detDrawn'
         /\ animatedPoints' = updateAnimatedPoints(points, detentionHighlights)
         /\ frames' = IF ~stop \/ animatedPoints' # points
                      THEN frames + 1 ELSE frames
         /\ IF drawAnimatedPointsThrows(animatedPoints', detentionHighlights, badPoints)
            THEN /\ detRafPending' = pending
                 /\ aborted' = TRUE
            ELSE /\ detRafPending' = pending + 1
                 /\ UNCHANGED aborted
    ELSE /\ detRafPending' = pending
         /\ animatedPoints' = points
         /\ UNCHANGED <<detentionParticles, detDrawn, frames, wrapped, everDrawn,
                        aborted>>

-----------------------------------------------------------------------------
(* Bounds and inputs *)

\* flow records in a served flow resource (initialization)
MaxFlows == 2
\* flow records in a served flow resource (aggregation)
MaxRecords == 7
\* frames drawn after the particles were built
MaxFrames == 1120
\* frames drawn between filter calls
MaxFilterFrames == 2
\* consecutive filter calls with one key that are told apart
MaxRepeats == 3
\* frames drawn between the events of the narrative
MaxStepFrames == 2
\* setTimeout callbacks of one kind pending at a time
MaxTimers == 1

\* Places, all but Greenwich on the meridian 95.3698 W
Houston     == Endpoint(JsNum(297604), JsNum(0 - 953698), "Texas")
HoustonToo  == Endpoint(JsNum(297604), JsNum(0 - 953698), "Houston")
Near56m     == Endpoint(JsNum(297609), JsNum(0 - 953698), "Downtown")
Near556m    == Endpoint(JsNum(297654), JsNum(0 - 953698), "Uptown")
Mexico      == Endpoint(JsNum(194326), JsNum(0 - 953698), "Mexico")
Guatemala   == Endpoint(JsNum(146349), JsNum(0 - 953698), "Guatemala")
Cuba        == Endpoint(JsNum(231136), JsNum(0 - 953698), "Cuba")
Equator     == Endpoint(JsNum(0), JsNum(0 - 953698), "Equator")
Greenwich   == Endpoint(JsNum(514779), JsNum(0), "Greenwich")
Beyond      == Endpoint(JsNum(95 * DegScale), JsNum(0 - 953698), "Beyond")
NoLat       == Endpoint(JsUndefined, JsNum(0 - 953698), "NoLat")
NanLat      == Endpoint(JsNaN, JsNum(0 - 953698), "NanLat")
NoLon       == Endpoint(JsNum(297604), JsUndefined, "NoLon")
From(name)  == Endpoint(JsNum(297604), JsNum(0 - 953698), name)

\* records of data/flow_data.json
MapPool ==
    { Flow(Houston, Mexico, 100, JsNum(2)),
      Flow(Houston, Guatemala, 30, JsUndefined),
      Flow(Houston, Mexico, 50, JsNum(0)),
      Flow(Houston, Mexico, 5000, JsNum(20)),
      Flow(Houston, Mexico, 7000, JsNum(3)),
      Flow(Houston, HoustonToo, 10, JsNum(1)),
      Flow(Houston, Near56m, 10, JsNum(1)),
      Flow(Houston, Near556m, 10, JsNum(1)),
      Flow(Equator, Mexico, 40, JsNum(1)),
      Flow(Houston, Greenwich, 40, JsNum(1)),
      Flow(Houston, Beyond, 5, JsNum(1)),
      Flow(NoEndpoint, Mexico, 5, JsNum(1)),
      Flow(NoLat, Mexico, 5, JsNum(1)),
      Flow(NanLat, Mexico, 5, JsNum(1)),
      Flow(Houston, NoLon, 5, JsNum(1)),
      NullFlow }

\* records of data/detention_flows.json
DetentionCounts == {0, 30, 50, 51, 700, 701, 751, 5000}
DetentionPool ==
    { Flow(Houston, Mexico, c, JsUndefined) : c \in DetentionCounts }
    \cup { Flow(Houston, HoustonToo, 100, JsUndefined),
           Flow(Houston, Near56m, 100, JsUndefined),
           Flow(Houston, Near556m, 100, JsUndefined),
           Flow(Equator, Mexico, 100, JsUndefined),
           Flow(NoEndpoint, Mexico, 100, JsUndefined) }

\* the sequences of at most n elements of S
SeqsUpTo(S, n) == UNION {[1..k -> S] : k \in 0..n}

\* the elements of the sequence `pool` at the places in S, in ascending order
RECURSIVE Ascending(_, _)
Ascending(pool, S) ==
    IF S = {} THEN <<>>
    ELSE LET m == CHOOSE x \in S : \A y \in S : x <= y
         IN  <<pool[m]>> \o Ascending(pool, S \ {m})

Reverse(seq) == [k \in 1..Len(seq) |-> seq[Len(seq) + 1 - k]]

\* records for the aggregation: a list is a sub-list of AggPool of at most
\* MaxRecords records, in the order of the pool or in the opposite order
AggPool ==
    << Flow(From("CA"), Mexico, 100, JsNum(1)),
       Flow(From("TX"), Mexico, 50, JsNum(1)),
       Flow(From("CA"), Guatemala, 30, JsNum(1)),
       Flow(From("10"), Mexico, 50, JsNum(1)),
       Flow(From("2"), Mexico, 50, JsNum(1)),
       Flow(From("NY"), Mexico, 50, JsNum(1)),
       Flow(From("FL"), Mexico, 50, JsNum(1)),
       Flow(From("AZ"), Mexico, 70, JsNum(1)),
       Flow(From("TX"), Mexico, 50, JsNum(1)),
       Flow(From(""), Mexico, 20, JsNum(1)),
       Flow(From("CA"), Cuba, 0, JsNum(1)) >>

AggLists ==
    LET picks == {S \in SUBSET (1..Len(AggPool)) : Cardinality(S) <= MaxRecords}
    IN  {Ascending(AggPool, S) : S \in picks}
        \cup {Reverse(Ascending(AggPool, S)) : S \in picks}

\* the three records of the worked example
ScenarioFlows == SubSeq(AggPool, 1, 3)

\* served flow resources
InitAnswers == {Failure} \cup {Answer(TRUE, fs, 0, "none") : fs \in SeqsUpTo(MapPool, MaxFlows)}
AggAnswers == {Answer(TRUE, fs, 0, "none") : fs \in AggLists}
AnimAnswers ==
    {Answer(TRUE, <<Flow(Houston, Mexico, 100, JsNum(2)),
                    Flow(Houston, Guatemala, 30, JsUndefined)>>, 0, "none")}
FilterAnswers ==
    {Failure,
     Answer(TRUE, <<Flow(Houston, Mexico, 100, JsNum(2)),
                    Flow(Houston, Guatemala, 30, JsUndefined)>>, 0, "none"),
     Answer(TRUE, <<Flow(Houston, Cuba, 100, JsNum(1))>>, 0, "none")}
DetInitAnswers ==
    {Failure} \cup {Answer(TRUE, fs, 0, "none") : fs \in SeqsUpTo(DetentionPool, MaxFlows)}
DetAnimAnswers ==
    {Answer(TRUE, <<Flow(Houston, Mexico, 150, JsUndefined),
                    Flow(Houston, Guatemala, 30, JsUndefined)>>, 0, "none")}
HighlightAnswers == {Failure, Answer(TRUE, <<>>, 0, "none"), Answer(TRUE, <<>>, 2, "none")}
StatisticsAnswers == {Failure, Answer(TRUE, <<>>, 0, "full"), Answer(TRUE, <<>>, 0, "bare"),
                      Answer(TRUE, <<>>, 0, "null")}
TimelineAnswers == {Failure, Answer(TRUE, <<>>, 0, "none"), Answer(TRUE, <<>>, 2, "none")}

FilterKeys == {KeyUndefined, KeyNull, KeyName("Mexico"), KeyName("Guatemala"),
               KeyName("Atlantis")}

-----------------------------------------------------------------------------
(* Initial state: the scripts have run their top level *)

KeyNone == [t |-> "none", s |-> ""]

\* the camera of the last flyTo or fitBounds request
Camera(kind, index) == [kind |-> kind, index |-> index]

\* an entry of data/top_destinations.json: the card needs destination, total
\* and top_origins, the camera is read by focusOnDestination only
Destination(name, hasCamera) == [camera |-> hasCamera, destination |-> name]

FullRanking == <<Destination("Mexico", TRUE), Destination("Guatemala", TRUE),
                 Destination("Honduras", TRUE)>>

\* what loadTopDestinations() can return: the ranking, and a shorter one whose
\* second entry has no camera
Rankings == {FullRanking,
             <<Destination("Mexico", TRUE), Destination("Guatemala", FALSE)>>}

TimerKinds == {"countryLayers", "exitFly", "overlay"}
Sizes == {"wide", "narrow"}

\* a delivered step-exit event, and whether the overview camera request and
\* the call of showDataSourcesOverlay have followed it
Exit(step, direction) == [step |-> step, direction |-> direction,
                          fly |-> FALSE, notify |-> FALSE]
NoExit == Exit("none", "none")

InitWith(scripts, seeds, rankings) ==
    /\ script \in scripts
    /\ topDestinations \in rankings
    /\ interactive = TRUE
    /\ camera = Camera("default", 0)
    /\ overlayActive = FALSE
    /\ overlayVisible = FALSE
    /\ countriesActive = FALSE
    /\ layersVisible = FALSE
    /\ hoveredCountryName = KeyNull
    /\ countryTooltip = "hidden"
    /\ hoverState = {}
    /\ exitTransition = "none"
    /\ detentionHighlights = 0
    /\ currentHighlight = "null"
    /\ animatedPoints = [personKey \in Persons |-> AnimatedPoint(FALSE, 0, 0)]
    /\ detInteractive = TRUE
    /\ detCamera = Camera("default", 0)
    /\ dataSourcesOverlay = FALSE
    /\ detExitTransition = "none"
    /\ timers = [kind \in TimerKinds |-> 0]
    /\ canvasSize = "wide"
    /\ currentStep = "none"
    /\ previousStep = "none"
    /\ exits = NoExit
    /\ aborted = FALSE
    /\ mapPhase = "init"
    /\ canvas = FALSE
    /\ allFlows = <<>>
    /\ particles = <<>>
    /\ countryRemovalData = <<>>
    /\ animationActive = FALSE
    /\ rafPending = 0
    /\ selectedCountryName = KeyNull
    /\ drawn = {}
    /\ detPhase = "start"
    /\ detentionFlows = <<>>
    /\ detentionStatistics = "null"
    /\ detentionData = [flows |-> <<>>, error |-> FALSE, highlights |-> 0,
                        statistics |-> "null"]
    /\ detentionParticles = <<>>
    /\ detentionAnimationActive = FALSE
    /\ detRafPending = 0
    /\ stopBackgroundParticles = FALSE
    /\ detDrawn = {}
    /\ timelinePhase = "start"
    /\ currentCountry = "all"
    /\ trumpMarkerVisible = FALSE
    /\ timelineActive = -1
    /\ timelineFilter = FALSE
    /\ timelineSection = FALSE
    /\ timelineLine = -1
    /\ timelinePending = {}
    /\ rng \in seeds
    /\ fetched = [r \in Resources |-> 0]
    /\ served = [r \in Resources |-> NotAsked]
    /\ consoleErrors = {}
    /\ domMessage = ""
    /\ frames = 0
    /\ wrapped = {}
    /\ everDrawn = {}
    /\ lastKey = KeyNone
    /\ clickedCountry = KeyNull
    /\ onceState = [selected |-> KeyNull, visual |-> <<>>, calls |-> 0]

InitOf(scripts, seeds) == InitWith(scripts, seeds, {FullRanking})

Fetch(rs) == [r \in Resources |-> IF r \in rs THEN fetched[r] + 1 ELSE fetched[r]]

-----------------------------------------------------------------------------
(* main.js: initMap, the map's 'load' handler, one action per await *)

\* "Map loaded": the tooltip, createCanvasOverlay(), and loadData() up to
\* await fetch('data/flow_data.json')
MapLoadStart ==
    /\ script = "map" /\ mapPhase = "init"
    /\ mapPhase' = "loading"
    /\ canvas' = TRUE
    /\ fetched' = Fetch({"flow_data"})
    /\ UNCHANGED <<script, allFlows, particles, countryRemovalData, animationActive,
                   rafPending, selectedCountryName, drawn, mapNarr, detVars, tlVars,
                   rng, served, consoleErrors, domMessage, timers, canvasSize,
                   obsVars>>

\* loadData() resolves; allFlows, particles and countryRemovalData are set;
\* loadWorldCountries() runs up to its first await fetch(...)
MapFlowsArrive(answer) ==
    /\ script = "map" /\ mapPhase = "loading"
    /\ LET loaded == loadData(answer)
           built == createParticles(loaded.flows, rng)
       IN  /\ allFlows' = loaded.flows
           /\ particles' = built.particles
           /\ rng' = built.rng
           /\ countryRemovalData' = aggregateFlowsByDestination(loaded.flows)
           /\ consoleErrors' = IF loaded.error
                               THEN consoleErrors \cup {"Error loading data:"}
                               ELSE consoleErrors
    /\ served' = [served EXCEPT !["flow_data"] = answer]
    /\ fetched' = Fetch({"world_countries"})
    /\ mapPhase' = "countries"
    /\ frames' = 0 /\ wrapped' = {} /\ everDrawn' = {}
    /\ lastKey' = KeyNone
    /\ clickedCountry' = KeyNull
    /\ onceState' = [selected |-> KeyNull, visual |-> <<>>, calls |-> 0]
    /\ overlayActive' = FALSE /\ overlayVisible' = FALSE
    /\ UNCHANGED <<script, canvas, animationActive, rafPending, selectedCountryName,
                   drawn, topDestinations, interactive, camera, countriesActive,
                   layersVisible, hoveredCountryName, countryTooltip, hoverState, exitTransition, detVars, tlVars,
                   domMessage, timers, canvasSize, stepObs>>

\* loadWorldCountries() resolves; the handler runs to its end
MapCountriesArrive(answer) ==
    /\ script = "map" /\ mapPhase = "countries"
    /\ served' = [served EXCEPT !["world_countries"] = answer]
    /\ consoleErrors' = IF answer.ok THEN consoleErrors
                        ELSE consoleErrors \cup {"Error loading world countries:",
                                                 "Failed to load world countries data"}
    /\ mapPhase' = "loaded"
    /\ interactive' = FALSE
    /\ UNCHANGED <<script, canvas, allFlows, particles, countryRemovalData,
                   animationActive, rafPending, selectedCountryName, drawn,
                   topDestinations, camera, overlayActive, overlayVisible, countriesActive,
                   layersVisible, hoveredCountryName, countryTooltip, hoverState, exitTransition, detVars,
                   tlVars, rng, fetched, domMessage, timers, canvasSize, obsVars>>

\* the destination layers exist once addDestinationOverlay(destinationGeoJSON) ran
DestinationLayersExist == mapPhase \in {"countries", "loaded"}

\* what setDestinationOverlayVisible(visible) leaves of the layers' visibility
destinationOverlayVisible(visible) ==
    IF DestinationLayersExist THEN visible ELSE overlayVisible

setDestinationOverlayVisible(visible) ==
    /\ overlayActive' = visible
    /\ overlayVisible' = destinationOverlayVisible(visible)

\* the country layers exist once addCountryLayers(worldCountriesData) ran
CountryLayersExist == mapPhase = "loaded" /\ served["world_countries"].ok

setCountryLayersVisible(visible) ==
    /\ countriesActive' = visible
    /\ layersVisible' = IF CountryLayersExist THEN visible ELSE layersVisible

\* response.element.classList.add('is-active')
Entered(step) ==
    /\ previousStep' = currentStep
    /\ currentStep' = step

\* an intro step that calls drawParticles() on every entry
handleStepEnterStartsLoop_Always(active) == TRUE

\* if (!animationActive) { animationActive = true; drawParticles(); }
handleStepEnterStartsLoop(active) == ~active

\* handleStepEnter for step 0: the animation is started once, the overview is
\* restored.  The scroller delivers the event of a step again after
\* scroller.resize().
EnterIntro(bad) ==
    /\ script = "map"
    /\ Entered("intro")
    /\ animationActive' = TRUE
    /\ IF handleStepEnterStartsLoop(animationActive)
       THEN drawParticles(TRUE, rafPending, bad)
       ELSE UNCHANGED <<particles, drawn, rafPending, frames, wrapped, everDrawn>>
    /\ camera' = Camera("default", 0)
    /\ setDestinationOverlayVisible(FALSE)
    /\ setCountryLayersVisible(FALSE)
    /\ interactive' = FALSE
    /\ UNCHANGED <<script, mapPhase, canvas, allFlows, countryRemovalData,
                   selectedCountryName, topDestinations, hoveredCountryName, countryTooltip, hoverState,
                   exitTransition, detVars, tlVars, envVars, lastKey, clickedCountry, onceState,
                   exits, aborted>>

\* the browser runs a pending requestAnimationFrame(drawParticles) callback
MapFrame(cap, bad) ==
    /\ script = "map" /\ rafPending > 0 /\ frames < cap
    /\ drawParticles(animationActive, rafPending - 1, bad)
    /\ UNCHANGED <<script, mapPhase, canvas, allFlows, countryRemovalData,
                   animationActive, selectedCountryName, mapNarr, detVars, tlVars,
                   envVars, lastKey, clickedCountry, onceState, stepObs>>

\* what a filter call may change of a particle
Visual(ps) == [k \in 1..Len(ps) |->
                 [filtered |-> ps[k].filtered, opacity |-> ps[k].opacity,
                  color |-> ps[k].color]]

\* the call filterParticlesByDestination(key) while selectedCountryName = selected
filterCalled(selected, key) ==
    LET r == filterParticlesByDestination(particles, selected, canvas, key)
    IN  /\ particles' = r.particles
        /\ selectedCountryName' = r.selected

\* a call filterParticlesByDestination(key) on its own, with the key and the
\* result of the first of a run of calls with one key kept for comparison
FilterCall(key) ==
    /\ script = "map"
    /\ filterCalled(selectedCountryName, key)
    /\ lastKey' = key
    /\ UNCHANGED clickedCountry
    /\ onceState' = IF key = lastKey
                    THEN [onceState EXCEPT !.calls = Min(@ + 1, MaxRepeats)]
                    ELSE [selected |-> selectedCountryName',
                          visual |-> Visual(particles'), calls |-> 1]
    /\ UNCHANGED <<script, mapPhase, canvas, allFlows, countryRemovalData,
                   animationActive, rafPending, drawn, mapNarr, detVars, tlVars, envVars,
                   frames, wrapped, everDrawn, stepObs>>

-----------------------------------------------------------------------------
(* main.js: the narrative steps, the country layers and the exit of the section *)

MapSteps == <<"intro", "destination1", "destination2", "destination3", "interactive">>

\* focusOnDestination(index): the camera, the overlay and the interaction it
\* leaves, and whether reading dest.camera.center threw
focusOnDestination(index) ==
    IF index >= Len(topDestinations)
    THEN [interactive |-> interactive, camera |-> camera,
          overlayActive |-> overlayActive,
          overlayVisible |-> overlayVisible, throws |-> FALSE]
    ELSE IF ~topDestinations[index + 1].camera
    THEN [interactive |-> interactive, camera |-> camera,
          overlayActive |-> overlayActive,
          overlayVisible |-> overlayVisible, throws |-> TRUE]
    ELSE [interactive |-> FALSE, camera |-> Camera("destination", index),
          overlayActive |-> FALSE,
          overlayVisible |-> destinationOverlayVisible(FALSE), throws |-> FALSE]

\* handleStepEnter for the steps 1, 2 and 3.  populateDestinationCards hides
\* the card of a destination the ranking does not have, so that its step is
\* never entered.
MapEnterFocus(index) ==
    /\ script = "map"
    /\ index \in 1..3 /\ index <= Len(topDestinations)
    /\ Entered(MapSteps[index + 1])
    /\ LET focus == focusOnDestination(index - 1)
       IN  /\ camera' = focus.camera
           /\ overlayActive' = focus.overlayActive
           /\ overlayVisible' = focus.overlayVisible
           /\ interactive' = focus.interactive
           /\ IF focus.throws
              THEN UNCHANGED <<countriesActive, layersVisible>>
              ELSE setCountryLayersVisible(TRUE)
    /\ UNCHANGED <<script, mapPhase, canvas, allFlows, particles, countryRemovalData,
                   animationActive, rafPending, selectedCountryName, drawn,
                   topDestinations, hoveredCountryName, countryTooltip, hoverState, exitTransition, detVars,
                   tlVars, envVars, frames, wrapped, everDrawn, lastKey, clickedCountry, onceState,
                   exits, aborted>>

\* handleStepEnter for step 4
MapEnterInteractive ==
    /\ script = "map"
    /\ timers["countryLayers"] < MaxTimers
    /\ Entered("interactive")
    /\ camera' = Camera("world", 0)
    /\ setDestinationOverlayVisible(FALSE)
    /\ filterCalled(KeyNull, KeyUndefined)
    /\ clickedCountry' = KeyNull
    /\ timers' = [timers EXCEPT !["countryLayers"] = @ + 1]
    /\ interactive' = TRUE
    /\ UNCHANGED <<script, mapPhase, canvas, allFlows, countryRemovalData,
                   animationActive, rafPending, drawn, topDestinations,
                   countriesActive, layersVisible, hoveredCountryName, countryTooltip, hoverState,
                   exitTransition, detVars, tlVars, rng, fetched, served,
                   consoleErrors, domMessage, canvasSize, frames, wrapped, everDrawn,
                   lastKey, onceState, exits, aborted>>

\* the callback of setTimeout(..., 100) of step 4
MapCountryLayersTimer ==
    /\ script = "map"
    /\ timers["countryLayers"] > 0
    /\ timers' = [timers EXCEPT !["countryLayers"] = @ - 1]
    /\ setCountryLayersVisible(TRUE)
    /\ UNCHANGED <<script, mapPhase, canvas, allFlows, particles, countryRemovalData,
                   animationActive, rafPending, selectedCountryName, drawn,
                   topDestinations, interactive, camera, overlayActive, overlayVisible,
                   hoveredCountryName, countryTooltip, hoverState, exitTransition, detVars, tlVars, rng, fetched,
                   served, consoleErrors, domMessage, canvasSize, obsVars>>

-----------------------------------------------------------------------------
(* main.js: normalizeCountryName and getDestinationDataForCountry.  A name is
   handled as the sequence of its characters. *)

\* the characters of the names of regions and destinations
Chars ==
    "Mexico" :> <<"M", "e", "x", "i", "c", "o">> @@
    "Guatemala" :> <<"G", "u", "a", "t", "e", "m", "a", "l", "a">> @@
    "Cuba" :> <<"C", "u", "b", "a">> @@
    "Atlantis" :> <<"A", "t", "l", "a", "n", "t", "i", "s">> @@
    "MEXICO" :> <<"M", "E", "X", "I", "C", "O">> @@
    "Nigeria" :> <<"N", "i", "g", "e", "r", "i", "a">> @@
    "Niger" :> <<"N", "i", "g", "e", "r">> @@
    "Dominican Republic" :> <<"D", "o", "m", "i", "n", "i", "c", "a", "n", " ", "R", "e", "p", "u", "b", "l", "i", "c">> @@
    "Dominican Rep." :> <<"D", "o", "m", "i", "n", "i", "c", "a", "n", " ", "R", "e", "p", ".">> @@
    "United States" :> <<"U", "n", "i", "t", "e", "d", " ", "S", "t", "a", "t", "e", "s">> @@
    "United States of America" :> <<"U", "n", "i", "t", "e", "d", " ", "S", "t", "a", "t", "e", "s", " ", "o", "f", " ", "A", "m", "e", "r", "i", "c", "a">> @@
    "United Kingdom" :> <<"U", "n", "i", "t", "e", "d", " ", "K", "i", "n", "g", "d", "o", "m">> @@
    "United Arab Emirates" :> <<"U", "n", "i", "t", "e", "d", " ", "A", "r", "a", "b", " ", "E", "m", "i", "r", "a", "t", "e", "s">> @@
    "United Arab Republic" :> <<"U", "n", "i", "t", "e", "d", " ", "A", "r", "a", "b", " ", "R", "e", "p", "u", "b", "l", "i", "c">> @@
    "Bahamas" :> <<"B", "a", "h", "a", "m", "a", "s">> @@
    "The Bahamas" :> <<"T", "h", "e", " ", "B", "a", "h", "a", "m", "a", "s">> @@
    "Trinidad & Tobago" :> <<"T", "r", "i", "n", "i", "d", "a", "d", " ", "&", " ", "T", "o", "b", "a", "g", "o">> @@
    "Trinidad and Tobago" :> <<"T", "r", "i", "n", "i", "d", "a", "d", " ", "a", "n", "d", " ", "T", "o", "b", "a", "g", "o">>

\* String.prototype.toLowerCase on the letters A-Z
LowerOf ==
    "A" :> "a" @@ "B" :> "b" @@ "C" :> "c" @@ "D" :> "d" @@ "E" :> "e" @@ "F" :> "f" @@
    "G" :> "g" @@ "H" :> "h" @@ "I" :> "i" @@ "J" :> "j" @@ "K" :> "k" @@ "L" :> "l" @@
    "M" :> "m" @@ "N" :> "n" @@ "O" :> "o" @@ "P" :> "p" @@ "Q" :> "q" @@ "R" :> "r" @@
    "S" :> "s" @@ "T" :> "t" @@ "U" :> "u" @@ "V" :> "v" @@ "W" :> "w" @@ "X" :> "x" @@
    "Y" :> "y" @@ "Z" :> "z"

toLowerCase(s) ==
    [i \in 1..Len(s) |-> IF s[i] \in DOMAIN LowerOf THEN LowerOf[s[i]] ELSE s[i]]

\* s, read from position i, begins with p
startsWithAt(s, p, i) ==
    i + Len(p) - 1 <= Len(s) /\ SubSeq(s, i, i + Len(p) - 1) = p

\* String.prototype.startsWith and String.prototype.includes
startsWith(s, p) == startsWithAt(s, p, 1)

includes(s, p) == \E i \in 1..(Len(s) - Len(p) + 1) : startsWithAt(s, p, i)

\* \s+ from position i: the position after the run of spaces
RECURSIVE SkipSpaces(_, _)
SkipSpaces(s, i) == IF i <= Len(s) /\ s[i] = " " THEN SkipSpaces(s, i + 1) ELSE i

\* .replace(/^the\s+/, '')
stripThe(s) ==
    IF startsWith(s, <<"t", "h", "e", " ">>)
    THEN SubSeq(s, SkipSpaces(s, 4), Len(s))
    ELSE s

\* /\s+of\s+america$/ matches s from position i
OfAmericaAt(s, i) ==
    /\ s[i] = " "
    /\ LET j == SkipSpaces(s, i)
       IN  /\ startsWithAt(s, <<"o", "f", " ">>, j)
           /\ LET k == SkipSpaces(s, j + 2)
              IN  /\ startsWithAt(s, <<"a", "m", "e", "r", "i", "c", "a">>, k)
                  /\ k + 6 = Len(s)

\* .replace(/\s+of\s+america$/, ''): the leftmost match is removed
stripOfAmerica(s) ==
    IF \E i \in 1..Len(s) : OfAmericaAt(s, i)
    THEN LET i == CHOOSE i \in 1..Len(s) :
                     OfAmericaAt(s, i) /\ \A h \in 1..(i - 1) : ~OfAmericaAt(s, h)
         IN  SubSeq(s, 1, i - 1)
    ELSE s

\* /\s+and\s+/ matches s from position i: the position after the match, or 0
AndAt(s, i) ==
    IF s[i] # " " THEN 0
    ELSE LET j == SkipSpaces(s, i)
         IN  IF startsWithAt(s, <<"a", "n", "d", " ">>, j)
             THEN SkipSpaces(s, j + 3)
             ELSE 0

\* .replace(/\s+and\s+/g, ' & '), from position i on
RECURSIVE replaceAnd(_, _)
replaceAnd(s, i) ==
    IF i > Len(s) THEN <<>>
    ELSE IF AndAt(s, i) # 0
         THEN <<" ", "&", " ">> \o replaceAnd(s, AndAt(s, i))
         ELSE <<s[i]>> \o replaceAnd(s, i + 1)

\* String.prototype.trim
RECURSIVE trimEnd(_)
trimEnd(s) ==
    IF Len(s) > 0 /\ s[Len(s)] = " " THEN trimEnd(SubSeq(s, 1, Len(s) - 1)) ELSE s

trim(s) == trimEnd(SubSeq(s, SkipSpaces(s, 1), Len(s)))

normalizeCountryName(s) ==
    trim(replaceAnd(stripOfAmerica(stripThe(toLowerCase(s))), 1))

\* .split(/\s+/), from position i on, with the word begun before i
RECURSIVE splitFrom(_, _, _)
splitFrom(s, i, word) ==
    IF i > Len(s) THEN <<word>>
    ELSE IF s[i] = " "
         THEN <<word>> \o splitFrom(s, SkipSpaces(s, i), <<>>)
         ELSE splitFrom(s, i + 1, Append(word, s[i]))

split(s) == splitFrom(s, 1, <<>>)

\* COUNTRY_NAME_MAPPING: every entry maps a name to itself
COUNTRY_NAME_MAPPING ==
    [n \in {"Mexico", "Honduras", "Guatemala", "El Salvador", "Nicaragua", "Haiti",
            "Dominican Republic", "Jamaica", "Colombia", "Ecuador", "Peru", "Brazil",
            "Venezuela", "Cuba", "India", "China", "Philippines", "Vietnam"} |-> n]

\* the keys of countryRemovalData, in the order of for (const destName in ...)
Keys(data) == [d \in 1..Len(data) |-> data[d].destination]

United == <<"u", "n", "i", "t", "e", "d">>

\* name.toLowerCase(), normalizeCountryName(name) and
\* name.split(/\s+/)[0].toLowerCase() of every name
LowerCase == [name \in DOMAIN Chars |-> toLowerCase(Chars[name])]
Normalized == [name \in DOMAIN Chars |-> normalizeCountryName(Chars[name])]
FirstWord == [name \in DOMAIN Chars |-> toLowerCase(split(Chars[name])[1])]

\* the test each stage makes of a key destName for the region countryName
StageMatches(stage, destName, countryName) ==
    LET nDest    == Normalized[destName]
        nCountry == Normalized[countryName]
    IN  CASE stage = "exact" -> destName = countryName
          [] stage = "mapped" ->
                /\ countryName \in DOMAIN COUNTRY_NAME_MAPPING
                /\ destName = COUNTRY_NAME_MAPPING[countryName]
          [] stage = "caseInsensitive" -> LowerCase[destName] = LowerCase[countryName]
          [] stage = "normalized" -> nDest = nCountry
          [] stage = "reverseMapping" ->
                \E neName \in DOMAIN COUNTRY_NAME_MAPPING :
                   neName = countryName /\ destName = COUNTRY_NAME_MAPPING[neName]
          [] stage = "partial" -> includes(nDest, nCountry) \/ includes(nCountry, nDest)
          [] stage = "firstWord" ->
                /\ Len(FirstWord[countryName]) >= 5
                /\ FirstWord[countryName] # United
                /\ startsWith(LowerCase[destName], FirstWord[countryName])
          [] stage = "united" ->
                /\ FirstWord[countryName] = United
                /\ Len(split(nCountry)) > 1 /\ Len(split(nDest)) > 1
                /\ split(nCountry)[2] = split(nDest)[2]
                /\ Len(split(nCountry)[2]) >= 4

\* the key a stage returns: the first one, in the order of the keys, that
\* passes its test; 0 if none does
StageKey(stage, data, countryName) ==
    LET hits == {d \in 1..Len(data) : StageMatches(stage, Keys(data)[d], countryName)}
    IN  IF hits = {} THEN 0 ELSE CHOOSE d \in hits : \A e \in hits : d <= e

\* a lookup that tries the partial match first
StageOrder_PartialFirst ==
    <<"partial", "exact", "mapped", "caseInsensitive", "normalized", "reverseMapping",
      "firstWord", "united">>

\* the order of the stages in getDestinationDataForCountry
StageOrder ==
    <<"exact", "mapped", "caseInsensitive", "normalized", "reverseMapping", "partial",
      "firstWord", "united">>

\* the first stage, from stage n on, that returns a key; 0 if none does
RECURSIVE StageFrom(_, _, _)
StageFrom(data, countryName, n) ==
    IF n > Len(StageOrder) THEN 0
    ELSE IF StageKey(StageOrder[n], data, countryName) # 0 THEN n
    ELSE StageFrom(data, countryName, n + 1)

FirstStage(data, countryName) == StageFrom(data, countryName, 1)

-----------------------------------------------------------------------------
(* main.js: setupCountryInteractions *)

\* the names of the features of the country layer that the pointer can be over
Countries == {"Mexico", "Atlantis"}

\* a lookup that takes every region for a destination
getDestinationDataForCountry_AlwaysFound(data, countryName) == KeyName(countryName)

\* getDestinationDataForCountry(countryName).destination, or null: the key
\* that the first stage to find one returns
getDestinationDataForCountry(data, countryName) ==
    LET n == FirstStage(data, countryName)
    IN  IF n = 0 THEN KeyNull
        ELSE KeyName(Keys(data)[StageKey(StageOrder[n], data, countryName)])

\* a handler that gives hover to this country and takes it from none
hoverMoved_KeepsOld(state, hovered, countryName) == state \cup {countryName}

\* the feature-states the 'mousemove' handler leaves: hover is taken from the
\* country hovered before, if it is another one, and given to this one
hoverMoved(state, hovered, countryName) ==
    (IF hovered # KeyNull /\ hovered # KeyName(countryName)
     THEN state \ {hovered.s} ELSE state) \cup {countryName}

\* the feature-states the 'mouseleave' handler leaves
hoverLeft(state, hovered) ==
    IF hovered # KeyNull THEN state \ {hovered.s} ELSE state

\* the 'mousemove' handler of the country layer, over a feature
MouseMove(countryName) ==
    /\ script = "map"
    /\ CountryLayersExist /\ layersVisible
    /\ countriesActive
    /\ hoveredCountryName' = KeyName(countryName)
    /\ hoverState' = hoverMoved(hoverState, hoveredCountryName, countryName)
    /\ LET destData == getDestinationDataForCountry(countryRemovalData, countryName)
       IN  /\ countryTooltip' = IF destData # KeyNull THEN "data" ELSE "noData"
           /\ filterCalled(selectedCountryName, destData)
    /\ UNCHANGED <<script, mapPhase, canvas, allFlows, countryRemovalData,
                   animationActive, rafPending, drawn, topDestinations, interactive,
                   camera, overlayActive, overlayVisible, countriesActive, layersVisible,
                   exitTransition, detVars, tlVars, envVars, frames, wrapped,
                   everDrawn, lastKey, clickedCountry, onceState, stepObs>>

\* the 'mouseleave' handler of the country layer
MouseLeave ==
    /\ script = "map"
    /\ hoveredCountryName # KeyNull
    /\ hoveredCountryName' = KeyNull
    /\ hoverState' = hoverLeft(hoverState, hoveredCountryName)
    /\ countryTooltip' = "hidden"
    /\ filterCalled(selectedCountryName,
                    IF selectedCountryName.t \in {"null", "undefined"}
                    THEN KeyUndefined ELSE selectedCountryName)
    /\ UNCHANGED <<script, mapPhase, canvas, allFlows, countryRemovalData,
                   animationActive, rafPending, drawn, topDestinations, interactive,
                   camera, overlayActive, overlayVisible, countriesActive, layersVisible,
                   exitTransition, detVars, tlVars, envVars, frames, wrapped,
                   everDrawn, lastKey, clickedCountry, onceState, stepObs>>

\* the 'click' handler of the country layer, over a feature
Click(countryName) ==
    /\ script = "map"
    /\ CountryLayersExist /\ layersVisible
    /\ countriesActive
    /\ LET destData == getDestinationDataForCountry(countryRemovalData, countryName)
       IN  /\ filterCalled(selectedCountryName, destData)
           /\ camera' = IF destData # KeyNull THEN Camera("country", 0) ELSE camera
           /\ clickedCountry' = destData
    /\ UNCHANGED <<script, mapPhase, canvas, allFlows, countryRemovalData,
                   animationActive, rafPending, drawn, topDestinations, interactive,
                   overlayActive, overlayVisible, countriesActive, layersVisible,
                   hoveredCountryName, countryTooltip, hoverState,
                   exitTransition, detVars, tlVars, envVars, frames, wrapped,
                   everDrawn, lastKey, onceState, stepObs>>

\* if (response.index === 4 && response.direction === 'down')
handleStepExitFires_AnyDirection(step, direction) == step = "interactive"

handleStepExitFires(step, direction) == step = "interactive" /\ direction = "down"

\* handleStepExit; the scroller reports the exit of the step it entered last
MapExit(step, direction) ==
    /\ script = "map" /\ currentStep = step
    /\ handleStepExitFires(step, direction) => timers["exitFly"] < MaxTimers
    /\ exits' = Exit(step, direction)
    /\ IF handleStepExitFires(step, direction)
       THEN /\ exitTransition' = IF exitTransition = "none" THEN "exiting"
                                 ELSE exitTransition
            /\ timers' = [timers EXCEPT !["exitFly"] = @ + 1]
       ELSE UNCHANGED <<exitTransition, timers>>
    /\ UNCHANGED <<script, mapPhase, canvas, allFlows, particles, countryRemovalData,
                   animationActive, rafPending, selectedCountryName, drawn,
                   topDestinations, interactive, camera, overlayActive, overlayVisible,
                   countriesActive, layersVisible, hoveredCountryName, countryTooltip, hoverState, detVars,
                   tlVars, rng, fetched, served, consoleErrors, domMessage,
                   canvasSize, frames, wrapped, everDrawn, lastKey, clickedCountry, onceState,
                   currentStep, previousStep, aborted>>

\* the callback of setTimeout(..., 100) of handleStepExit
MapExitTimer ==
    /\ script = "map"
    /\ timers["exitFly"] > 0
    /\ timers' = [timers EXCEPT !["exitFly"] = @ - 1]
    /\ camera' = Camera("default", 0)
    /\ exitTransition' = "faded"
    /\ exits' = [exits EXCEPT !.fly = TRUE]
    /\ UNCHANGED <<script, mapPhase, canvas, allFlows, particles, countryRemovalData,
                   animationActive, rafPending, selectedCountryName, drawn,
                   topDestinations, interactive, overlayActive, overlayVisible, countriesActive,
                   layersVisible, hoveredCountryName, countryTooltip, hoverState, detVars, tlVars, rng, fetched,
                   served, consoleErrors, domMessage, canvasSize, frames, wrapped,
                   everDrawn, lastKey, clickedCountry, onceState, currentStep, previousStep, aborted>>

\* the 'resize' listener of the window: scroller.resize(); resizeCanvas()
MapResize(size) ==
    /\ script = "map"
    /\ canvas /\ size # canvasSize
    /\ canvasSize' = size
    /\ UNCHANGED <<script, mapVars, detVars, tlVars, rng, fetched, served,
                   consoleErrors, domMessage, timers, obsVars>>

-----------------------------------------------------------------------------
(* detention_journey.js: initDetentionJourneyVisualization *)

\* loadDetentionData() resolves and the function runs on to its return or to
\* initDetentionMap().  The globals are assigned once the three bodies parsed.
DetentionDataArrive(aFlows, aHigh, aStats) ==
    /\ script = "detention" /\ detPhase = "start"
    /\ fetched' = Fetch({"detention_flows", "detention_highlights", "detention_statistics"})
    /\ served' = [served EXCEPT !["detention_flows"] = aFlows,
                                !["detention_highlights"] = aHigh,
                                !["detention_statistics"] = aStats]
    /\ LET data == loadDetentionData(aFlows, aHigh, aStats)
           parsed == aFlows.ok /\ aHigh.ok /\ aStats.ok
           empty == Len(data.flows) = 0 \/ data.highlights = 0
       IN  /\ detentionData' = data
           /\ detentionFlows' = IF parsed THEN aFlows.flows ELSE detentionFlows
           /\ detentionStatistics' = IF parsed THEN aStats.stats ELSE detentionStatistics
           /\ consoleErrors' =
                 consoleErrors
                   \cup (IF data.error THEN {"Error loading detention data:"} ELSE {})
                   \cup (IF empty THEN {"No detention data loaded"} ELSE {})
           /\ detentionHighlights' = IF parsed THEN aHigh.items ELSE detentionHighlights
           /\ detPhase' = IF empty THEN "aborted" ELSE "mapInit"
    /\ UNCHANGED <<script, mapVars, detentionParticles, detentionAnimationActive,
                   detRafPending, stopBackgroundParticles, detDrawn, currentHighlight,
                   animatedPoints, detInteractive, detCamera, dataSourcesOverlay,
                   detExitTransition, tlVars, rng, domMessage, timers, canvasSize,
                   obsVars>>

\* addFacilityMarkers(flows) reads flow.origin.facility_code and
\* flow.destination.facility_code of every flow
addFacilityMarkersThrows(flows) ==
    \E k \in 1..Len(flows) : ~flows[k].origin.present \/ ~flows[k].destination.present

\* detentionMap.on('load', ...) disables the interactions, then
\* detentionMap.once('load', ...): markers, particles, canvas, cards, scroller
DetentionMapLoad ==
    /\ script = "detention" /\ detPhase = "mapInit"
    /\ detInteractive' = FALSE
    /\ IF addFacilityMarkersThrows(detentionFlows)
       THEN /\ detPhase' = "crashed"
            /\ UNCHANGED <<detentionParticles, currentHighlight>>
       ELSE /\ detPhase' = "ready"
            /\ detentionParticles' = createDetentionParticles(detentionFlows)
            /\ currentHighlight' = "none"
    /\ frames' = 0 /\ wrapped' = {} /\ everDrawn' = {}
    /\ UNCHANGED <<script, mapVars, detentionFlows, detentionStatistics, detentionData,
                   detentionAnimationActive, detRafPending, stopBackgroundParticles,
                   detDrawn, detentionHighlights, animatedPoints, detCamera,
                   dataSourcesOverlay, detExitTransition, tlVars, envVars, lastKey, clickedCountry,
                   onceState, stepObs>>

-----------------------------------------------------------------------------
(* detention_journey.js: initDetentionScrollytelling *)

\* steps that hide the first person only
Hidden_OnlyFirst(points) == [points EXCEPT !["person1"].visible = FALSE]

\* animatedPoints.person1.visible = false; animatedPoints.person2.visible = false;
Hidden(points) == [personKey \in Persons |-> [points[personKey] EXCEPT !.visible = FALSE]]

\* onStepEnter for the intro step
DetentionEnterIntro(bad) ==
    /\ script = "detention" /\ detPhase = "ready"
    /\ Entered("intro-step")
    /\ currentHighlight' = "none"
    /\ stopBackgroundParticles' = FALSE
    /\ detCamera' = Camera("default", 0)
    /\ detentionAnimationActive' = TRUE
    /\ IF detentionAnimationActive
       THEN /\ animatedPoints' = Hidden(animatedPoints)
            /\ UNCHANGED <<detentionParticles, detDrawn, detRafPending, frames, wrapped,
                           everDrawn, aborted>>
       ELSE drawDetentionParticles(TRUE, FALSE, detRafPending, Hidden(animatedPoints),
                                   bad, {})
    /\ UNCHANGED <<script, mapVars, detPhase, detentionFlows, detentionStatistics,
                   detentionData, detentionHighlights, detInteractive,
                   dataSourcesOverlay, detExitTransition, tlVars, envVars, lastKey, clickedCountry,
                   onceState, exits>>

FeaturedSteps == <<"chicago-step", "facility1-step", "facility2-step">>
DetentionSteps == <<"intro-step">> \o FeaturedSteps \o
                  <<"story1-step", "story2-step", "reflection-step", "interactive-step">>
Featured == <<"chicago", "facility1", "facility2">>

\* onStepEnter for the chicago, facility1 and facility2 steps
DetentionEnterFeatured(index) ==
    /\ script = "detention" /\ detPhase = "ready"
    /\ Entered(FeaturedSteps[index + 1])
    /\ currentHighlight' = Featured[index + 1]
    /\ animatedPoints' = Hidden(animatedPoints)
    /\ detCamera' = IF detentionStatistics = "full" THEN Camera("featured", index)
                    ELSE detCamera
    /\ UNCHANGED <<script, mapVars, detPhase, detentionFlows, detentionStatistics,
                   detentionData, detentionParticles, detentionAnimationActive,
                   detRafPending, stopBackgroundParticles, detDrawn,
                   detentionHighlights, detInteractive, dataSourcesOverlay,
                   detExitTransition, tlVars, envVars, frames, wrapped, everDrawn,
                   lastKey, clickedCountry, onceState, exits, aborted>>

Other(personKey) == IF personKey = "person1" THEN "person2" ELSE "person1"

\* focusOnPerson(personIndex)
focusOnPerson(personIndex) ==
    IF personIndex < detentionHighlights THEN Camera("person", personIndex) ELSE detCamera

\* onStepEnter for the story1 and story2 steps
DetentionEnterStory(personKey) ==
    /\ script = "detention" /\ detPhase = "ready"
    /\ Entered(IF personKey = "person1" THEN "story1-step" ELSE "story2-step")
    /\ currentHighlight' = personKey
    /\ animatedPoints' =
          [animatedPoints EXCEPT ![Other(personKey)].visible = FALSE,
                                 ![personKey] = startPersonAnimation(@)]
    /\ detCamera' = focusOnPerson(PersonIndex(personKey))
    /\ UNCHANGED <<script, mapVars, detPhase, detentionFlows, detentionStatistics,
                   detentionData, detentionParticles, detentionAnimationActive,
                   detRafPending, stopBackgroundParticles, detDrawn,
                   detentionHighlights, detInteractive, dataSourcesOverlay,
                   detExitTransition, tlVars, envVars, frames, wrapped, everDrawn,
                   lastKey, clickedCountry, onceState, exits, aborted>>

\* onStepEnter for the reflection step
DetentionEnterReflection ==
    /\ script = "detention" /\ detPhase = "ready"
    /\ Entered("reflection-step")
    /\ currentHighlight' = "none"
    /\ animatedPoints' = Hidden(animatedPoints)
    /\ detCamera' = Camera("default", 0)
    /\ UNCHANGED <<script, mapVars, detPhase, detentionFlows, detentionStatistics,
                   detentionData, detentionParticles, detentionAnimationActive,
                   detRafPending, stopBackgroundParticles, detDrawn,
                   detentionHighlights, detInteractive, dataSourcesOverlay,
                   detExitTransition, tlVars, envVars, frames, wrapped, everDrawn,
                   lastKey, clickedCountry, onceState, exits, aborted>>

\* onStepEnter for the interactive step
DetentionEnterInteractive ==
    /\ script = "detention" /\ detPhase = "ready"
    /\ Entered("interactive-step")
    /\ currentHighlight' = "none"
    /\ animatedPoints' = Hidden(animatedPoints)
    /\ detCamera' = Camera("default", 0)
    /\ stopBackgroundParticles' = TRUE
    /\ detInteractive' = TRUE
    /\ UNCHANGED <<script, mapVars, detPhase, detentionFlows, detentionStatistics,
                   detentionData, detentionParticles, detentionAnimationActive,
                   detRafPending, detDrawn, detentionHighlights, dataSourcesOverlay,
                   detExitTransition, tlVars, envVars, frames, wrapped, everDrawn,
                   lastKey, clickedCountry, onceState, exits, aborted>>

\* the browser runs a pending requestAnimationFrame(drawDetentionParticles) callback
DetentionFrame(cap, bad, badPoints) ==
    /\ script = "detention" /\ detRafPending > 0 /\ frames < cap
    /\ drawDetentionParticles(detentionAnimationActive, stopBackgroundParticles,
                              detRafPending - 1, animatedPoints, bad, badPoints)
    /\ UNCHANGED <<script, mapVars, detPhase, detentionFlows, detentionStatistics,
                   detentionData, detentionAnimationActive, stopBackgroundParticles,
                   detentionHighlights, currentHighlight, detInteractive, detCamera,
                   dataSourcesOverlay, detExitTransition, tlVars, envVars, lastKey, clickedCountry,
                   onceState, currentStep, previousStep, exits>>

\* if (stepClass.includes('interactive-step') && response.direction === 'down')
onStepExitFires(stepClass, direction) ==
    stepClass = "interactive-step" /\ direction = "down"

\* the step-exit handler of the scroller.  scrollama keeps one handler per
\* event: the second .onStepExit(...) of the chain replaces the first, whose
\* 'exiting' class, camera request and fading of the cards never run.
DetentionExit(stepClass, direction) ==
    /\ script = "detention" /\ detPhase = "ready" /\ currentStep = stepClass
    /\ onStepExitFires(stepClass, direction) => timers["overlay"] < MaxTimers
    /\ exits' = Exit(stepClass, direction)
    /\ timers' = IF onStepExitFires(stepClass, direction)
                 THEN [timers EXCEPT !["overlay"] = @ + 1]
                 ELSE timers
    /\ UNCHANGED <<script, mapVars, detVars, tlVars, rng, fetched, served,
                   consoleErrors, domMessage, canvasSize, frames, wrapped, everDrawn,
                   lastKey, clickedCountry, onceState, currentStep, previousStep, aborted>>

\* the callback of setTimeout(..., 500): window.showDataSourcesOverlay()
DetentionOverlayTimer ==
    /\ script = "detention"
    /\ timers["overlay"] > 0
    /\ timers' = [timers EXCEPT !["overlay"] = @ - 1]
    /\ dataSourcesOverlay' = TRUE
    /\ exits' = [exits EXCEPT !.notify = TRUE]
    /\ UNCHANGED <<script, mapVars, detPhase, detentionFlows, detentionStatistics,
                   detentionData, detentionParticles, detentionAnimationActive,
                   detRafPending, stopBackgroundParticles, detDrawn,
                   detentionHighlights, currentHighlight, animatedPoints,
                   detInteractive, detCamera, detExitTransition, tlVars, rng, fetched,
                   served, consoleErrors, domMessage, canvasSize, frames, wrapped,
                   everDrawn, lastKey, clickedCountry, onceState, currentStep, previousStep, aborted>>

\* window.closeDataSourcesOverlay(), the onclick of the overlay
closeDataSourcesOverlay ==
    /\ script = "detention"
    /\ dataSourcesOverlay
    /\ dataSourcesOverlay' = FALSE
    /\ UNCHANGED <<script, mapVars, detPhase, detentionFlows, detentionStatistics,
                   detentionData, detentionParticles, detentionAnimationActive,
                   detRafPending, stopBackgroundParticles, detDrawn,
                   detentionHighlights, currentHighlight, animatedPoints,
                   detInteractive, detCamera, detExitTransition, tlVars, envVars,
                   obsVars>>

\* the 'resize' listener of the window: scroller.resize(); resizeDetentionCanvas()
DetentionResize(size) ==
    /\ script = "detention" /\ detPhase = "ready"
    /\ size # canvasSize
    /\ canvasSize' = size
    /\ UNCHANGED <<script, mapVars, detVars, tlVars, rng, fetched, served,
                   consoleErrors, domMessage, timers, obsVars>>

-----------------------------------------------------------------------------
(* timeline.js: initTimeline *)

initTimeline(aAll, aByCountry) ==
    /\ script = "timeline" /\ timelinePhase = "start"
    /\ fetched' = Fetch({"timeline_data", "timeline_data_by_country"})
    /\ served' = [served EXCEPT !["timeline_data"] = aAll,
                                !["timeline_data_by_country"] = aByCountry]
    /\ IF ~aAll.ok \/ ~aByCountry.ok
       THEN /\ consoleErrors' = consoleErrors \cup {"Error loading timeline data:"}
            /\ domMessage' = "Error loading data. Please ensure timeline data files exist."
            /\ timelinePhase' = "error"
       ELSE IF aAll.items = 0
       THEN /\ consoleErrors' = consoleErrors \cup {"No data in timeline"}
            /\ domMessage' = "Error: No data available."
            /\ timelinePhase' = "error"
       ELSE /\ timelinePhase' = "rendered"
            /\ UNCHANGED <<consoleErrors, domMessage>>
    /\ UNCHANGED <<script, mapVars, detVars, rng, timers, canvasSize, obsVars,
                   currentCountry, trumpMarkerVisible, timelineActive, timelineFilter,
                   timelineSection, timelineLine, timelinePending>>

-----------------------------------------------------------------------------
(* timeline.js: initTimelineScrollama and setupTimelineFilterVisibility *)

\* the cards of '#timeline-section .step', numbered from 0
TimelineSteps == 3

StepEvent(kind, index, direction) == [kind |-> kind, index |-> index, direction |-> direction]

\* the step events of a scroll that takes the offset line from one place to
\* the next one in a direction
ScrollEvents(from, to, direction) ==
    (IF from \in 0..(TimelineSteps - 1)
     THEN {StepEvent("exit", from, direction)} ELSE {})
       \cup
    (IF to \in 0..(TimelineSteps - 1)
     THEN {StepEvent("enter", to, direction)} ELSE {})

\* the reader scrolls by one card; the section is in view while the offset
\* line is in one of its cards
TimelineScroll(direction) ==
    /\ script = "timeline" /\ timelinePhase = "rendered"
    /\ timelinePending = {}
    /\ timelineSection
    /\ LET to == IF direction = "down" THEN timelineLine + 1 ELSE timelineLine - 1
       IN  /\ to \in -1..TimelineSteps
           /\ timelineLine' = to
           /\ timelinePending' = ScrollEvents(timelineLine, to, direction)
    /\ UNCHANGED <<script, mapVars, detVars, envVars, obsVars, timelinePhase,
                   currentCountry, trumpMarkerVisible, timelineActive, timelineFilter,
                   timelineSection>>

\* if (filter && response.index <= 1) filter.classList.remove('visible');
onStepEnterFilter(visible, index) == IF index <= 1 THEN FALSE ELSE visible

\* if (response.index === 1) { ... filter.classList.add('visible'); }
onStepExitFilter(visible, index) == IF index = 1 THEN TRUE ELSE visible

\* the onStepEnter callback of the timeline scroller; drawTrumpMarker() draws
\* the marker on the chart that renderTimeline made
TimelineStepEnter(index, direction) ==
    /\ script = "timeline"
    /\ StepEvent("enter", index, direction) \in timelinePending
    /\ timelinePending' = timelinePending \ {StepEvent("enter", index, direction)}
    /\ timelineActive' = index
    /\ timelineFilter' = onStepEnterFilter(timelineFilter, index)
    /\ trumpMarkerVisible' = (index = 1 \/ trumpMarkerVisible)
    /\ UNCHANGED <<script, mapVars, detVars, envVars, obsVars, timelinePhase,
                   currentCountry, timelineSection, timelineLine>>

\* the onStepExit callback of the timeline scroller
TimelineStepExit(index, direction) ==
    /\ script = "timeline"
    /\ StepEvent("exit", index, direction) \in timelinePending
    /\ timelinePending' = timelinePending \ {StepEvent("exit", index, direction)}
    /\ timelineFilter' = onStepExitFilter(timelineFilter, index)
    /\ UNCHANGED <<script, mapVars, detVars, envVars, obsVars, timelinePhase,
                   currentCountry, trumpMarkerVisible, timelineActive, timelineSection,
                   timelineLine>>

\* the IntersectionObserver callback of '#timeline-section': the section
\* comes into view, or goes out of view with the offset line outside its cards
TimelineSectionObserved(isIntersecting) ==
    /\ script = "timeline" /\ timelinePhase = "rendered"
    /\ isIntersecting # timelineSection
    /\ ~isIntersecting => timelineLine \in {-1, TimelineSteps}
    /\ timelineSection' = isIntersecting
    /\ timelineFilter' = IF ~isIntersecting THEN FALSE ELSE timelineFilter
    /\ UNCHANGED <<script, mapVars, detVars, envVars, obsVars, timelinePhase,
                   currentCountry, trumpMarkerVisible, timelineActive, timelineLine,
                   timelinePending>>

\* the values of '#country-select'
TimelineCountries == {"all", "Mexico"}

\* the 'change' listener of '#country-select': renderTimeline(currentCountry)
\* draws the chart again, without the marker.  The control takes input while
\* it has the class 'visible'.
TimelineCountryChange(country) ==
    /\ script = "timeline" /\ timelinePhase = "rendered"
    /\ timelineFilter
    /\ currentCountry' = country
    /\ trumpMarkerVisible' = FALSE
    /\ UNCHANGED <<script, mapVars, detVars, envVars, obsVars, timelinePhase,
                   timelineActive, timelineFilter, timelineSection, timelineLine,
                   timelinePending>>

-----------------------------------------------------------------------------
(* Specifications *)

\* Initialization of the three scripts, over every served resource
Next ==
    \/ MapLoadStart
    \/ \E a \in InitAnswers : MapFlowsArrive(a)
    \/ \E a \in {Failure, Answer(TRUE, <<>>, 2, "none")} : MapCountriesArrive(a)
    \/ \E f \in DetInitAnswers, h \in HighlightAnswers, s \in StatisticsAnswers :
          DetentionDataArrive(f, h, s)
    \/ DetentionMapLoad
    \/ \E a, b \in TimelineAnswers : initTimeline(a, b)

Seeds == 1..Len(RandomStream)

Spec == InitOf({"map", "detention", "timeline"}, Seeds) /\ [][Next]_vars

\* The two animation loops, over MaxFrames frames
NextAnim ==
    \/ MapLoadStart
    \/ \E a \in AnimAnswers : MapFlowsArrive(a)
    \/ MapCountriesArrive(Failure)
    \/ EnterIntro({})
    \/ MapFrame(MaxFrames, {})
    \/ \E f \in DetAnimAnswers :
          DetentionDataArrive(f, Answer(TRUE, <<>>, 2, "none"), Answer(TRUE, <<>>, 0, "full"))
    \/ DetentionMapLoad
    \/ DetentionEnterIntro({})
    \/ DetentionEnterInteractive
    \/ DetentionFrame(MaxFrames, {}, {})

SpecAnim == InitOf({"map", "detention"}, Seeds) /\ [][NextAnim]_vars

\* The narrative: the steps in any order, each delivered any number of times,
\* the pointer over the country layer, the timer of step 4, resizes and frames
StepAnswers ==
    {Failure,
     Answer(TRUE, <<Flow(Houston, Mexico, 100, JsNum(2)),
                    Flow(Houston, Guatemala, 30, JsUndefined)>>, 0, "none")}

NextSteps ==
    \/ MapLoadStart
    \/ \E a \in StepAnswers : MapFlowsArrive(a)
    \/ \E a \in {Failure, Answer(TRUE, <<>>, 2, "none")} : MapCountriesArrive(a)
    \/ EnterIntro({})
    \/ \E index \in 1..3 : MapEnterFocus(index)
    \/ MapEnterInteractive
    \/ MapCountryLayersTimer
    \/ MapFrame(MaxStepFrames, {})
    \/ \E countryName \in Countries : MouseMove(countryName)
    \/ MouseLeave
    \/ \E countryName \in Countries : Click(countryName)
    \/ \E size \in Sizes : MapResize(size)
    \/ \E f \in DetAnimAnswers :
          DetentionDataArrive(f, Answer(TRUE, <<>>, 2, "none"), Answer(TRUE, <<>>, 0, "full"))
    \/ DetentionMapLoad
    \/ DetentionEnterIntro({})
    \/ \E index \in 0..2 : DetentionEnterFeatured(index)
    \/ \E personKey \in Persons : DetentionEnterStory(personKey)
    \/ DetentionEnterReflection
    \/ DetentionEnterInteractive
    \/ DetentionFrame(MaxStepFrames, {}, {})
    \/ \E size \in Sizes : DetentionResize(size)

SpecSteps == InitWith({"map", "detention"}, {1}, Rankings) /\ [][NextSteps]_vars

\* Every kind of event after the load: step-enter, step-exit of the terminal
\* step and of the step before it in both directions, hover, click, resize,
\* the timers and the frames
MapExits == {<<"interactive", "down">>, <<"interactive", "up">>,
             <<"destination3", "down">>, <<"destination3", "up">>}
DetentionExits == {<<"interactive-step", "down">>, <<"interactive-step", "up">>,
                   <<"reflection-step", "down">>, <<"reflection-step", "up">>}

NextEvents ==
    \/ MapLoadStart
    \/ \E a \in StepAnswers : MapFlowsArrive(a)
    \/ MapCountriesArrive(Answer(TRUE, <<>>, 2, "none"))
    \/ EnterIntro({})
    \/ MapEnterFocus(3)
    \/ MapEnterInteractive
    \/ MapCountryLayersTimer
    \/ MapFrame(MaxStepFrames, {})
    \/ MouseMove("Mexico")
    \/ MouseLeave
    \/ Click("Mexico")
    \/ \E e \in MapExits : MapExit(e[1], e[2])
    \/ MapExitTimer
    \/ \E size \in Sizes : MapResize(size)
    \/ \E f \in DetAnimAnswers :
          DetentionDataArrive(f, Answer(TRUE, <<>>, 2, "none"), Answer(TRUE, <<>>, 0, "full"))
    \/ DetentionMapLoad
    \/ DetentionEnterIntro({})
    \/ DetentionEnterStory("person1")
    \/ DetentionEnterReflection
    \/ DetentionEnterInteractive
    \/ DetentionFrame(MaxStepFrames, {}, {})
    \/ \E e \in DetentionExits : DetentionExit(e[1], e[2])
    \/ DetentionOverlayTimer
    \/ closeDataSourcesOverlay
    \/ \E size \in Sizes : DetentionResize(size)

SpecEvents == InitOf({"map", "detention"}, {1}) /\ [][NextEvents]_vars

\* The frames of the two loops on which the position of a particle or of an
\* animated point cannot be computed or projected
BadSets == {{}, {1}}
BadPoints == {{}, {"person1"}, {"person2"}}

NextFrames ==
    \/ MapLoadStart
    \/ \E a \in AnimAnswers : MapFlowsArrive(a)
    \/ MapCountriesArrive(Failure)
    \/ \E bad \in BadSets : EnterIntro(bad)
    \/ \E bad \in BadSets : MapFrame(MaxStepFrames, bad)
    \/ \E f \in DetAnimAnswers :
          DetentionDataArrive(f, Answer(TRUE, <<>>, 2, "none"), Answer(TRUE, <<>>, 0, "full"))
    \/ DetentionMapLoad
    \/ \E bad \in BadSets : DetentionEnterIntro(bad)
    \/ \E personKey \in Persons : DetentionEnterStory(personKey)
    \/ DetentionEnterInteractive
    \/ \E bad \in BadSets, badPoints \in BadPoints :
          DetentionFrame(MaxStepFrames, bad, badPoints)

SpecFrames == InitOf({"map", "detention"}, Seeds) /\ [][NextFrames]_vars

\* The journey of a highlighted person: the story step of the person and the
\* steps before and after the stories in any order, and the frames of a whole
\* journey and a few more
MaxRestFrames == 3
FramesPerSegment == CeilDiv(ONE, SEGMENT_ANIMATION_SPEED)
JourneyFrames == (PathStops - 1) * FramesPerSegment + MaxRestFrames

NextJourney ==
    \/ \E f \in DetAnimAnswers :
          DetentionDataArrive(f, Answer(TRUE, <<>>, 2, "none"), Answer(TRUE, <<>>, 0, "full"))
    \/ DetentionMapLoad
    \/ DetentionEnterIntro({})
    \/ DetentionEnterStory("person1")
    \/ DetentionEnterReflection
    \/ DetentionFrame(JourneyFrames, {}, {})

SpecJourney == InitOf({"detention"}, {1}) /\ [][NextJourney]_vars

\* The timeline section: scrolls by one card in both directions, the step
\* events of a scroll delivered in either order, and the section going out of
\* and coming into view
Directions == {"down", "up"}

NextTimeline ==
    \/ \E a, b \in TimelineAnswers : initTimeline(a, b)
    \/ \E direction \in Directions : TimelineScroll(direction)
    \/ \E index \in 0..(TimelineSteps - 1), direction \in Directions :
          TimelineStepEnter(index, direction)
    \/ \E index \in 0..(TimelineSteps - 1), direction \in Directions :
          TimelineStepExit(index, direction)
    \/ \E isIntersecting \in BOOLEAN : TimelineSectionObserved(isIntersecting)
    \/ \E country \in TimelineCountries : TimelineCountryChange(country)

SpecTimeline == InitOf({"timeline"}, {1}) /\ [][NextTimeline]_vars

\* The lookup of the hovered or clicked region among the destinations of the
\* flows, for names that the stages of the lookup tell apart
Named(name) == Endpoint(JsNum(194326), JsNum(0 - 953698), name)

LookupFlows(names) ==
    [k \in 1..Len(names) |-> Flow(Houston, Named(names[k]), 30, JsUndefined)]

LookupAnswers ==
    {Answer(TRUE, LookupFlows(<<"Nigeria", "Niger", "Mexico">>), 0, "none"),
     Answer(TRUE, LookupFlows(<<"Nigeria", "Dominican Republic", "United States",
                                "Bahamas">>), 0, "none"),
     Answer(TRUE, LookupFlows(<<"Trinidad & Tobago", "United Arab Emirates",
                                "Mexico">>), 0, "none")}

LookupCountries ==
    {"Mexico", "MEXICO", "Atlantis", "Niger", "The Bahamas", "United States of America",
     "Trinidad and Tobago", "Dominican Rep.", "United Kingdom", "United Arab Republic"}

NextLookup ==
    \/ MapLoadStart
    \/ \E a \in LookupAnswers : MapFlowsArrive(a)
    \/ MapCountriesArrive(Answer(TRUE, <<>>, 2, "none"))
    \/ MapEnterInteractive
    \/ MapCountryLayersTimer
    \/ \E countryName \in LookupCountries : MouseMove(countryName)
    \/ MouseLeave
    \/ \E countryName \in LookupCountries : Click(countryName)

SpecLookup == InitOf({"map"}, {1}) /\ [][NextLookup]_vars

\* Aggregation of the flows by destination
NextAgg ==
    \/ MapLoadStart
    \/ \E a \in AggAnswers : MapFlowsArrive(a)
    \/ MapCountriesArrive(Failure)

SpecAgg == InitOf({"map"}, {1}) /\ [][NextAgg]_vars

\* Filter calls on the built particles
NextFilter ==
    \/ MapLoadStart
    \/ \E a \in FilterAnswers : MapFlowsArrive(a)
    \/ MapCountriesArrive(Failure)
    \/ EnterIntro({})
    \/ MapFrame(MaxFilterFrames, {})
    \/ \E key \in FilterKeys : FilterCall(key)

SpecFilter == InitOf({"map"}, Seeds) /\ [][NextFilter]_vars

-----------------------------------------------------------------------------
(* Properties of the animation loops *)

\* the particles of the script that runs
Field == IF script = "detention" THEN detentionParticles ELSE particles
Shown == IF script = "detention" THEN detDrawn ELSE drawn

C1_Range ==
    \A k \in 1..Len(Field) :
        /\ Field[k].progress < ONE
        /\ k \in wrapped => Field[k].progress >= Field[k].startOffset

C1_Reset ==
    \A k \in 1..Len(Field) :
        (/\ Len(Field') = Len(Field)
         /\ Field'[k].progress # Field[k].progress
         /\ Field[k].progress + Field[k].speed >= ONE)
            => Field'[k].progress = Field[k].startOffset

\* C1: a particle updated by drawParticles or drawDetentionParticles has
\* progress strictly below 1 after any number of frames; from its first wrap on
\* its progress stays in [startOffset, 1); and a frame whose increment takes the
\* progress to 1 or beyond leaves it at startOffset, not at 0.
C1_ProgressWrapsToStartOffset == []C1_Range /\ [][C1_Reset]_vars

\* a map particle with a positive startOffset has wrapped and moved on
C1_Witness ==
    /\ script = "map"
    /\ \E k \in wrapped :
          /\ particles[k].startOffset > 0
          /\ particles[k].progress > particles[k].startOffset

\* C2 as stated, for both builders: a fresh particle with a positive
\* startOffset starts below it, and no particle is drawn before the frames
\* since the build add up to its startOffset.
C2_EveryBuilderWaits ==
    \A k \in 1..Len(Field) :
        /\ (frames = 0 /\ Field[k].startOffset > 0)
              => Field[k].progress < Field[k].startOffset
        /\ k \in everDrawn => frames * Field[k].speed >= Field[k].startOffset

\* C2: createParticles builds every particle with progress 0, below a
\* positive startOffset, and such a particle is drawn on no frame before the
\* frames since the build add up to its startOffset (with startOffset 0.99 it
\* stays undrawn for the first 99% of its first cycle); createDetentionParticles
\* builds every particle with progress equal to its startOffset; in both loops a
\* particle is drawn on a frame only if its progress is at least its startOffset.
C2_PreSpawnWait ==
    /\ script = "map" =>
          \A k \in 1..Len(particles) :
              /\ frames = 0 => particles[k].progress = 0
              /\ k \in everDrawn => frames * particles[k].speed >= particles[k].startOffset
    /\ script = "detention" =>
          \A k \in 1..Len(detentionParticles) :
              frames = 0 => detentionParticles[k].progress = detentionParticles[k].startOffset
    /\ \A k \in Shown : Field[k].progress >= Field[k].startOffset

\* a map particle with startOffset 0.99 is still undrawn 1000 frames after the
\* build, while another particle is drawn
C2_Witness ==
    /\ script = "map" /\ frames >= 1000 /\ drawn # {}
    /\ \E k \in 1..Len(particles) :
          particles[k].startOffset = (99 * ONE) \div 100 /\ k \notin everDrawn

-----------------------------------------------------------------------------
(* Properties of the particle builders *)

MapBuilt == script = "map" /\ mapPhase \in {"countries", "loaded"}
DetentionBuilt == script = "detention" /\ detPhase = "ready"

\* the number of particles of the flow at place i of the list
Built(field, i) == Cardinality({k \in 1..Len(field) : field[k].flowIndex = i - 1})

IsNumber(v) == v.t = "number"
InRange(e) ==
    /\ e.present /\ IsNumber(e.lat) /\ IsNumber(e.lon)
    /\ Abs(e.lat.n) <= 90 * DegScale /\ Abs(e.lon.n) <= 180 * DegScale
ValidCoordinates(f) == ~f.isNull /\ InRange(f.origin) /\ InRange(f.destination)
NonZero(e) == e.present /\ IsNumber(e.lat) /\ IsNumber(e.lon) /\ e.lat.n # 0 /\ e.lon.n # 0
Apart(f) == turfDistance(f.origin, f.destination)
Degenerate(f, epsilon) ==
    /\ NonZero(f.origin) /\ NonZero(f.destination)
    /\ \/ f.origin.lat = f.destination.lat /\ f.origin.lon = f.destination.lon
       \/ Apart(f) < epsilon
\* a flow the builder makes particles for
Unskipped(f, epsilon) ==
    NonZero(f.origin) /\ NonZero(f.destination) /\ ~Degenerate(f, epsilon)

C4_DegenerateFlowsBuildNothing ==
    /\ MapBuilt =>
          /\ \A i \in 1..Len(allFlows) :
                Degenerate(allFlows[i], MAP_MIN_DISTANCE) => Built(particles, i) = 0
          /\ \A k \in 1..Len(particles) :
                /\ particles[k].distance >= MAP_MIN_DISTANCE
                /\ particles[k].line[1] # particles[k].line[2]
    /\ DetentionBuilt =>
          /\ \A i \in 1..Len(detentionFlows) :
                Degenerate(detentionFlows[i], DETENTION_MIN_DISTANCE)
                    => Built(detentionParticles, i) = 0
          /\ \A k \in 1..Len(detentionParticles) :
                /\ detentionParticles[k].distance >= DETENTION_MIN_DISTANCE
                /\ detentionParticles[k].line[1] # detentionParticles[k].line[2]

\* a map flow with endpoints apart but within the epsilon, next to a flow that
\* has particles
C4_Witness ==
    /\ MapBuilt
    /\ \E i, j \in 1..Len(allFlows) :
          /\ Degenerate(allFlows[i], MAP_MIN_DISTANCE)
          /\ allFlows[i].origin.lat # allFlows[i].destination.lat
          /\ Built(particles, j) > 0

-----------------------------------------------------------------------------
(* Properties of the loaders and of the initialization *)

MapAnswer == served["flow_data"]
DetentionAsked == script = "detention" /\ detPhase # "start"
DetentionFailed ==
    \E r \in {"detention_flows", "detention_highlights", "detention_statistics"} :
        ~served[r].ok
TimelineAsked == script = "timeline" /\ timelinePhase # "start"
TimelineFailed == ~served["timeline_data"].ok \/ ~served["timeline_data_by_country"].ok

\* C5: when the flow resource was fetched and parsed, the dataset is the
\* served list without the records that have a missing, non-finite or
\* out-of-range coordinate: every record with finite coordinates in range is in
\* it, also with a lat or lon of 0, and the load does not raise.
C5_LoadDataKeepsValidRecords ==
    (MapBuilt /\ MapAnswer.ok) =>
        /\ allFlows = SelectSeq(MapAnswer.flows, ValidCoordinates)
        /\ "Error loading data:" \notin consoleErrors

\* C6: a failed fetch or parse does not yield the value that a load with all
\* records filtered out yields: loadData does not resolve to the empty list, and
\* loadDetentionData resolves to a value that no successful load resolves to.
C6_FailureDiffersFromEmpty ==
    /\ (MapBuilt /\ ~MapAnswer.ok) => allFlows # <<>>
    /\ DetentionAsked =>
          /\ DetentionFailed => detentionData.statistics = "null"
          /\ ~detentionData.error => detentionData.statistics # "null"

\* C7: when a required resource could not be fetched or parsed, the script
\* does not go on to a running visualization, a message is shown on the page,
\* and no resource is fetched twice.
C7_FailedLoadStopsWithMessage ==
    /\ (MapBuilt /\ ~MapAnswer.ok) =>
          /\ mapPhase # "loaded" /\ domMessage # ""
          /\ \A r \in Resources : fetched[r] <= 1
    /\ (DetentionAsked /\ DetentionFailed) =>
          /\ detPhase = "aborted" /\ domMessage # ""
          /\ \A r \in Resources : fetched[r] <= 1
    /\ (TimelineAsked /\ TimelineFailed) =>
          /\ timelinePhase = "error" /\ domMessage # ""
          /\ \A r \in Resources : fetched[r] <= 1

-----------------------------------------------------------------------------
(* Properties of the aggregation *)

\* the sum of the counts of the records to destination `dest`, of all origins
\* (any = TRUE) or of origin `origin`
RECURSIVE SumCounts(_, _, _, _)
SumCounts(flows, dest, any, origin) ==
    IF flows = <<>> THEN 0
    ELSE (IF /\ Head(flows).destination.name = dest
             /\ (any \/ Head(flows).origin.name = origin)
          THEN Head(flows).count ELSE 0)
         + SumCounts(Tail(flows), dest, any, origin)

\* the named origins of the records to destination `dest`
OriginsOf(flows, dest) ==
    {flows[i].origin.name : i \in {j \in 1..Len(flows) :
        flows[j].destination.name = dest /\ flows[j].origin.name # ""}}

\* the place of the first record from `origin` to `dest`
FirstSeen(flows, dest, origin) ==
    CHOOSE i \in 1..Len(flows) :
        /\ flows[i].destination.name = dest /\ flows[i].origin.name = origin
        /\ \A j \in 1..(i - 1) :
              ~(flows[j].destination.name = dest /\ flows[j].origin.name = origin)

Names(top) == {top[k].name : k \in 1..Len(top)}

\* what is compared of an entry of the returned object
Summary(entry) ==
    [destination |-> entry.destination, total |-> entry.total,
     top_origins |-> entry.top_origins]

\* C8: per destination name, the total is the sum of the counts of all
\* records with that destination; the top-origins list is sorted by count
\* descending, has at most 5 entries, which are the origins with the largest
\* summed counts, and gives each origin its summed count and its share
\* count/total to the nearest tenth of a percent.  The three records
\* CA->Mexico:100, TX->Mexico:50, CA->Guatemala:30 give Mexico 150 with
\* [CA 100 (66.7), TX 50 (33.3)] and Guatemala 30 with [CA 30 (100.0)].
C8_AggregateTotalsAndTopOrigins ==
    MapBuilt =>
      /\ \A i \in 1..Len(allFlows) :
            allFlows[i].destination.name # "" =>
                \E d \in 1..Len(countryRemovalData) :
                    countryRemovalData[d].destination = allFlows[i].destination.name
      /\ \A d, e \in 1..Len(countryRemovalData) :
            countryRemovalData[d].destination = countryRemovalData[e].destination => d = e
      /\ \A d \in 1..Len(countryRemovalData) :
            LET entry == countryRemovalData[d]
                top == entry.top_origins
                all == OriginsOf(allFlows, entry.destination)
            IN  /\ entry.total = SumCounts(allFlows, entry.destination, TRUE, "")
                /\ Len(top) = Min(TOP_ORIGINS, Cardinality(all))
                /\ Cardinality(Names(top)) = Len(top)
                /\ Names(top) \subseteq all
                /\ \A k \in 1..(Len(top) - 1) : top[k].count >= top[k + 1].count
                /\ \A k \in 1..Len(top) :
                      /\ top[k].count =
                            SumCounts(allFlows, entry.destination, FALSE, top[k].name)
                      /\ IF entry.total = 0 THEN top[k].percent = JsNaN
                         ELSE 2 * Abs(top[k].percent.n * entry.total - 1000 * top[k].count)
                                 <= entry.total
                /\ \A name \in all \ Names(top) :
                      SumCounts(allFlows, entry.destination, FALSE, name)
                          <= top[Len(top)].count
      /\ allFlows = ScenarioFlows =>
            [d \in 1..Len(countryRemovalData) |-> Summary(countryRemovalData[d])] =
              << [destination |-> "Mexico", total |-> 150,
                  top_origins |->
                     << [name |-> "CA", count |-> 100, percent |-> JsNum(667)],
                        [name |-> "TX", count |-> 50, percent |-> JsNum(333)] >>],
                 [destination |-> "Guatemala", total |-> 30,
                  top_origins |->
                     << [name |-> "CA", count |-> 30, percent |-> JsNum(1000)] >>] >>

\* a destination with more than 5 origins, one of them in two records, and
\* counts that differ
C8_Witness ==
    /\ MapBuilt
    /\ \E d \in 1..Len(countryRemovalData) :
          LET entry == countryRemovalData[d]
          IN  /\ Cardinality(OriginsOf(allFlows, entry.destination)) > TOP_ORIGINS
              /\ entry.top_origins[1].count > entry.top_origins[TOP_ORIGINS].count
              /\ \E i, j \in 1..Len(allFlows) :
                    /\ i < j
                    /\ allFlows[i].destination.name = entry.destination
                    /\ allFlows[j].destination.name = entry.destination
                    /\ allFlows[i].origin.name = allFlows[j].origin.name

\* origin a was seen before origin b among the records to `dest`
SeenBefore(dest, a, b) ==
    FirstSeen(allFlows, dest, a) < FirstSeen(allFlows, dest, b)

\* the order of Object.keys: array-index names in ascending numeric order,
\* then the other names as first seen
KeyBefore(dest, a, b) ==
    IF ArrayIndex(a) >= 0 /\ ArrayIndex(b) >= 0 THEN ArrayIndex(a) < ArrayIndex(b)
    ELSE IF ArrayIndex(a) >= 0 THEN TRUE
    ELSE IF ArrayIndex(b) >= 0 THEN FALSE
    ELSE SeenBefore(dest, a, b)

\* the tied origins of every top-origins list are in the order Before, and an
\* origin left out that ties with a listed one comes after it in that order
TiesOrderedBy(Before(_, _, _)) ==
    MapBuilt =>
      \A d \in 1..Len(countryRemovalData) :
          LET entry == countryRemovalData[d]
              top == entry.top_origins
              dest == entry.destination
          IN  /\ \A k, l \in 1..Len(top) :
                    (k < l /\ top[k].count = top[l].count)
                        => Before(dest, top[k].name, top[l].name)
              /\ \A name \in OriginsOf(allFlows, dest) \ Names(top) :
                    \A k \in 1..Len(top) :
                        top[k].count = SumCounts(allFlows, dest, FALSE, name)
                            => Before(dest, top[k].name, name)

-----------------------------------------------------------------------------
(* Properties of the filter *)

\* C10: after two or more calls of filterParticlesByDestination in a row
\* with one key (a name, null or undefined), the color, opacity and filtered
\* flag of every particle and selectedCountryName are what they were after
\* the first of these calls.
C10_FilterIdempotent ==
    onceState.calls >= 2 =>
        /\ Visual(particles) = onceState.visual
        /\ selectedCountryName = onceState.selected

\* the filter was called twice with "Mexico" and dims some particles, not all
C10_Witness ==
    /\ onceState.calls >= 2 /\ lastKey = KeyName("Mexico")
    /\ \E k, l \in 1..Len(particles) : particles[k].filtered /\ ~particles[l].filtered

DefaultLook == [filtered |-> FALSE, opacity |-> 10, color |-> "red"]
FadedLook == [filtered |-> TRUE, opacity |-> 2, color |-> "gray"]
DimmedLook == [filtered |-> TRUE, opacity |-> 5, color |-> "gray"]

\* the last filter call acted on a non-empty particle set
Filtered == lastKey # KeyNone /\ Len(particles) > 0

\* C11: after filterParticlesByDestination(undefined) every particle is red,
\* opaque and not filtered; after null every particle is gray with opacity 0.2
\* and filtered; after a name exactly the particles with that destinationName
\* are red and opaque and all others gray with opacity 0.5.  On a non-empty set
\* the three outcomes of undefined, null and a name no particle has differ.
C11_ThreeWayFilter ==
    Filtered =>
        LET looks == Visual(particles)
            all(look) == [k \in 1..Len(particles) |-> look]
        IN  /\ lastKey = KeyUndefined => looks = all(DefaultLook)
            /\ lastKey = KeyNull => looks = all(FadedLook)
            /\ lastKey.t = "string" =>
                  \A k \in 1..Len(particles) :
                      looks[k] = IF particles[k].destinationName = lastKey.s
                                 THEN DefaultLook ELSE DimmedLook
            /\ (lastKey.t = "string"
                  /\ \A k \in 1..Len(particles) : particles[k].destinationName # lastKey.s)
                  => (looks # all(DefaultLook) /\ looks # all(FadedLook))
            /\ lastKey = KeyNull => looks # all(DefaultLook)
            /\ selectedCountryName = lastKey

\* the filter was called with a name that no particle has
C11_Witness ==
    /\ Filtered /\ lastKey = KeyName("Atlantis")
    /\ \A k \in 1..Len(particles) : particles[k].filtered /\ particles[k].opacity = 5

\* what a filter call must leave alone
Geometry(ps) ==
    [k \in 1..Len(ps) |->
        [f \in DOMAIN ps[k] \ {"color", "opacity", "filtered"} |-> ps[k][f]]]

\* C12: a call of filterParticlesByDestination, with any key, adds or removes
\* no particle and leaves every field of every particle but color, opacity and
\* filtered as it was (progress, speed, startOffset, line, distance, flowIndex).
C12_FilterKeepsGeometry ==
    [][(\E key \in FilterKeys : FilterCall(key))
          => Geometry(particles') = Geometry(particles)]_vars

\* a particle that had moved is dimmed by a filter call and is where it was
C12_Witness ==
    /\ Filtered /\ lastKey = KeyName("Guatemala")
    /\ \E k \in 1..Len(particles) :
          particles[k].filtered /\ particles[k].progress = MaxFilterFrames * SPEED_FACTOR

-----------------------------------------------------------------------------
(* C13: a drawable whose position fails is skipped, the frame goes on *)

\* the particles of ps that a frame draws when no position fails
Drawable(ps) == {k \in 1..Len(ps) : drawParticlesDraws(ps[k])}

MapFrameSurvives(bad) ==
    MapFrame(MaxStepFrames, bad) /\ animationActive /\ canvas
        => /\ particles' = [k \in 1..Len(particles) |-> drawParticlesAdvance(particles[k])]
           /\ Drawable(particles') \ bad \subseteq drawn'
           /\ rafPending' = rafPending

DetentionFrameSurvives(bad, badPoints) ==
    DetentionFrame(MaxStepFrames, bad, badPoints) /\ detentionAnimationActive
        => /\ ~stopBackgroundParticles
              => /\ detentionParticles' =
                       [k \in 1..Len(detentionParticles) |->
                           drawDetentionAdvance(detentionParticles[k])]
                 /\ Drawable(detentionParticles') \ bad \subseteq detDrawn'
           /\ animatedPoints' = updateAnimatedPoints(animatedPoints, detentionHighlights)
           /\ detRafPending' = detRafPending
           /\ ~aborted'

\* C13: on every frame of either loop, whichever drawables fail to be
\* positioned or projected, every particle and every animated point is still
\* updated, every other particle is drawn, and the frame ends by requesting the
\* next one, so that the number of outstanding requests is unchanged.
C13_FailedDrawableIsSkipped ==
    [][/\ \A bad \in BadSets : MapFrameSurvives(bad)
       /\ \A bad \in BadSets, badPoints \in BadPoints :
             DetentionFrameSurvives(bad, badPoints)]_vars

-----------------------------------------------------------------------------
(* C14: a step-enter event delivered again for the current step *)

\* the step-enter events of the two scrollers
StepEnter ==
    \/ EnterIntro({})
    \/ \E index \in 1..3 : MapEnterFocus(index)
    \/ MapEnterInteractive
    \/ DetentionEnterIntro({})
    \/ \E index \in 0..2 : DetentionEnterFeatured(index)
    \/ \E personKey \in Persons : DetentionEnterStory(personKey)
    \/ DetentionEnterReflection
    \/ DetentionEnterInteractive

Redelivered == StepEnter /\ currentStep' = currentStep

\* what makes a particle field: its size and, per particle, the path and the
\* start offset
Built_Field(ps) ==
    [k \in 1..Len(ps) |->
        [f \in {"line", "distance", "startOffset", "flowIndex"} \cap DOMAIN ps[k]
            |-> ps[k][f]]]

\* where the highlighted journeys stand
Journey(points) ==
    [personKey \in Persons |->
        [progress |-> points[personKey].progress,
         currentSegment |-> points[personKey].currentSegment]]

\* C14: a step-enter event for the step that is already current starts no
\* second animation loop (the frame requests outstanding and the active flags
\* are unchanged), leaves the particle fields as built, and leaves the
\* currentSegment and progress of both animated points as they were.
C14_ReEntryKeepsNarrative ==
    [][Redelivered =>
          /\ rafPending' = rafPending /\ animationActive' = animationActive
          /\ detRafPending' = detRafPending
          /\ detentionAnimationActive' = detentionAnimationActive
          /\ Built_Field(particles') = Built_Field(particles)
          /\ Built_Field(detentionParticles') = Built_Field(detentionParticles)
          /\ Journey(animatedPoints') = Journey(animatedPoints)]_vars

-----------------------------------------------------------------------------
(* C15: the particle field is built once *)

FieldBuilt ==
    \/ script = "map" /\ mapPhase \in {"countries", "loaded"}
    \/ script = "detention" /\ detPhase \in {"ready", "crashed"}

C15_EmptyBeforeBuild == ~FieldBuilt => particles = <<>> /\ detentionParticles = <<>>

C15_KeptAfterBuild ==
    FieldBuilt => /\ Built_Field(particles') = Built_Field(particles)
                  /\ Built_Field(detentionParticles') = Built_Field(detentionParticles)

\* C15: the particle collection is empty until the load handler builds it, and
\* from then on no step-enter, step-exit, hover, click, resize, timer or frame
\* changes its size or the path and startOffset of any particle.
C15_FieldBuiltOnce == []C15_EmptyBeforeBuild /\ [][C15_KeptAfterBuild]_vars

\* the map's field after a hover chose Mexico, a resize, a frame and a
\* downward exit of the interactive step
C15_Witness ==
    /\ script = "map" /\ Len(particles) > 1
    /\ selectedCountryName = KeyName("Mexico")
    /\ \E k \in 1..Len(particles) : particles[k].filtered
    /\ canvasSize = "narrow"
    /\ frames > 0
    /\ currentStep = "interactive"
    /\ exits.step = "interactive" /\ exits.direction = "down" /\ exits.fly

-----------------------------------------------------------------------------
(* C16: the state the intro step leaves *)

\* no filter is in force: no destination is selected and every particle has
\* its default look
Unfiltered(ps, selected) ==
    /\ selected.t # "string"
    /\ \A k \in 1..Len(ps) : Visual(ps)[k] = DefaultLook

C16_MapIntro == EnterIntro({}) => ~interactive' /\ Unfiltered(particles', selectedCountryName')

C16_DetentionIntro == DetentionEnterIntro({}) => ~detInteractive'

\* C16: when the step-enter handler of the intro step returns, pan and zoom
\* are disabled and no filter is in force, whatever the steps, hovers and clicks
\* before it.
C16_IntroDisablesAndResets == [][C16_MapIntro /\ C16_DetentionIntro]_vars

-----------------------------------------------------------------------------
(* C17: the interactive step after a focus step *)

FocusSteps == {"destination1", "destination2", "destination3"}

C17_AfterFocus ==
    MapEnterInteractive /\ currentStep \in FocusSteps
        => /\ interactive'
           /\ Unfiltered(particles', selectedCountryName')
           /\ Len(particles) > 0 => selectedCountryName' = KeyUndefined

-----------------------------------------------------------------------------
(* C18: the state a focus step leaves *)

C18_MapFocus(index) ==
    MapEnterFocus(index) => ~interactive' /\ camera' = Camera("destination", index - 1)

C18_DetentionFocus(index) ==
    DetentionEnterFeatured(index)
        => ~detInteractive' /\ detCamera' = Camera("featured", index)

\* C18: when the step-enter handler of a focus step returns, pan and zoom are
\* disabled and the camera was sent to the camera of the destination (of the
\* featured location) of that step, from whichever step it is entered and
\* whatever the ranking holds.
C18_FocusDisablesAndTargets ==
    [][/\ \A index \in 1..3 : C18_MapFocus(index)
       /\ \A index \in 0..2 : C18_DetentionFocus(index)]_vars

-----------------------------------------------------------------------------
(* C19: what a step-exit event triggers *)

TerminalSteps == {"interactive", "interactive-step"}

\* an exit effect starts: a timer of the exit handlers is set or the article
\* gets the class 'exiting'
ExitEffectStarts ==
    \/ timers'["exitFly"] > timers["exitFly"]
    \/ timers'["overlay"] > timers["overlay"]
    \/ exitTransition = "none" /\ exitTransition' # "none"
    \/ detExitTransition = "none" /\ detExitTransition' # "none"

\* the event just delivered is a downward exit of the terminal step
DownwardTerminalExit ==
    /\ exits'.step \in TerminalSteps /\ exits'.direction = "down"
    /\ ~exits'.fly /\ ~exits'.notify

C19_OtherExitsTriggerNothing ==
    /\ \A e \in MapExits :
          MapExit(e[1], e[2]) /\ e # <<"interactive", "down">>
              => UNCHANGED <<timers, exitTransition, camera>>
    /\ \A e \in DetentionExits :
          DetentionExit(e[1], e[2]) /\ e # <<"interactive-step", "down">>
              => UNCHANGED <<timers, detExitTransition, detCamera, dataSourcesOverlay>>

\* C19: the timers of the exit handlers (the overview camera, the fading of the
\* cards, showDataSourcesOverlay) and the class 'exiting' are started by a
\* downward exit of the terminal step and by nothing else; an upward exit of
\* the terminal step and an exit of another step start no timer and change
\* neither class, camera nor overlay.
C19_OnlyDownwardTerminalExit ==
    [][/\ ExitEffectStarts => DownwardTerminalExit
       /\ C19_OtherExitsTriggerNothing]_vars

\* the interactive step was left upward: nothing pending, nothing changed
C19_Witness ==
    /\ script = "detention"
    /\ currentStep = "interactive-step"
    /\ exits.step = "interactive-step" /\ exits.direction = "up"
    /\ timers["overlay"] = 0 /\ ~dataSourcesOverlay
    /\ detExitTransition = "none"

-----------------------------------------------------------------------------
(* C20: what follows a downward exit of the terminal step *)

\* the last exit was a downward exit of the terminal step and no timer of an
\* exit handler is pending any more
ExitSettled ==
    /\ exits.step \in TerminalSteps /\ exits.direction = "down"
    /\ timers["exitFly"] = 0 /\ timers["overlay"] = 0

\* C20: once the timers started by a downward exit of the terminal step have
\* run, the overview camera has been requested and showDataSourcesOverlay has
\* been called, in the map script and in the detention script.
C20_ExitFliesAndNotifies == ExitSettled => exits.fly /\ exits.notify

-----------------------------------------------------------------------------
(* C21: the state a step establishes does not depend on the steps before it *)

\* the narrative state: the camera target, whether pan and zoom are enabled,
\* whether the ambient particles move, whether a filter is in force and
\* whether the step cards are visible
Narrative(cam, enabled, moving, unfiltered, cards) ==
    [interactive |-> enabled, camera |-> cam, moving |-> moving,
     unfiltered |-> unfiltered, cards |-> cards]

\* the narrative state of each step on a first forward pass from the intro step
FirstPass(step) ==
    CASE step = "intro" -> Narrative(Camera("default", 0), FALSE, TRUE, TRUE, TRUE)
      [] step = "destination1" ->
             Narrative(Camera("destination", 0), FALSE, TRUE, TRUE, TRUE)
      [] step = "destination2" ->
             Narrative(Camera("destination", 1), FALSE, TRUE, TRUE, TRUE)
      [] step = "destination3" ->
             Narrative(Camera("destination", 2), FALSE, TRUE, TRUE, TRUE)
      [] step = "interactive" -> Narrative(Camera("world", 0), TRUE, TRUE, TRUE, TRUE)
      [] step = "intro-step" -> Narrative(Camera("default", 0), FALSE, TRUE, TRUE, TRUE)
      [] step = "chicago-step" ->
             Narrative(Camera("featured", 0), FALSE, TRUE, TRUE, TRUE)
      [] step = "facility1-step" ->
             Narrative(Camera("featured", 1), FALSE, TRUE, TRUE, TRUE)
      [] step = "facility2-step" ->
             Narrative(Camera("featured", 2), FALSE, TRUE, TRUE, TRUE)
      [] step = "story1-step" -> Narrative(Camera("person", 0), FALSE, TRUE, TRUE, TRUE)
      [] step = "story2-step" -> Narrative(Camera("person", 1), FALSE, TRUE, TRUE, TRUE)
      [] step = "reflection-step" ->
             Narrative(Camera("default", 0), FALSE, TRUE, TRUE, TRUE)
      [] step = "interactive-step" ->
             Narrative(Camera("default", 0), TRUE, FALSE, TRUE, TRUE)

\* a step-enter event of the map script after the load, the loop started
MapPass ==
    /\ script = "map" /\ mapPhase = "loaded" /\ animationActive'
    /\ StepEnter

\* a step-enter event of the detention script, the loop started
DetentionPass ==
    /\ script = "detention" /\ detentionAnimationActive'
    /\ StepEnter

\* C21: whatever steps, exits, hovers and clicks came before, the camera
\* target, the interaction, the ambient motion, the filter and the visibility
\* of the cards that a step-enter handler leaves are those the step has on a
\* first forward pass.
C21_StepStateIsReversible ==
    [][/\ MapPass =>
            Narrative(camera', interactive', animationActive',
                      Unfiltered(particles', selectedCountryName'),
                      exitTransition' # "faded") = FirstPass(currentStep')
       /\ DetentionPass =>
            Narrative(detCamera', detInteractive',
                      detentionAnimationActive' /\ ~stopBackgroundParticles',
                      TRUE, detExitTransition' # "faded")
                = FirstPass(currentStep')]_vars

-----------------------------------------------------------------------------
(* C22: the effects of a narrative event are in place when its handler returns *)

\* a callback of setTimeout runs
TimerFires == MapCountryLayersTimer \/ MapExitTimer \/ DetentionOverlayTimer

\* the camera targets, the filter and the visibility of the layers
NarrativeEffects ==
    <<camera, detCamera, selectedCountryName, Visual(particles), overlayActive,
      countriesActive, layersVisible>>

\* the effects of the handlers that set a timer, at their return
C22_AppliedAtReturn ==
    /\ MapEnterInteractive =>
          countriesActive' /\ (CountryLayersExist => layersVisible')
    /\ MapExit("interactive", "down") => camera' = Camera("default", 0)

\* C22: no callback of a timer changes a camera target, the filter or the
\* visibility of a layer, and the step-enter and step-exit handlers that set a
\* timer have made their layer and camera changes when they return.
C22_NoEffectIsDeferred ==
    [][/\ TimerFires => UNCHANGED NarrativeEffects
       /\ C22_AppliedAtReturn]_vars

-----------------------------------------------------------------------------
(* C23: the loop iterates the empty collection or a complete build *)

\* the collection holds, for every flow of the list, all the particles the
\* builder makes for it
CompleteMap(ps, flows) ==
    \A i \in 1..Len(flows) :
        Built(ps, i) = IF createParticlesSkips(flows[i]) THEN 0
                       ELSE createParticlesNum(flows[i])

CompleteDetention(ps, flows) ==
    \A i \in 1..Len(flows) :
        Built(ps, i) = IF createDetentionSkips(flows[i]) THEN 0
                       ELSE createDetentionNum(flows[i])

\* C23: in every state, so on every frame, the collection a loop iterates is
\* the initial empty one until the build has finished, and from then on holds
\* all the particles of every flow of the loaded list.
C23_NoPartialCollection ==
    /\ IF MapBuilt THEN CompleteMap(particles, allFlows) ELSE particles = <<>>
    /\ IF script = "detention" /\ detPhase \in {"ready", "crashed"}
       THEN detPhase = "ready" => CompleteDetention(detentionParticles, detentionFlows)
       ELSE detentionParticles = <<>>

\* the first frame after the build, the loop running: each of the three
\* particles of the two flows has moved once
C23_Witness ==
    /\ script = "map" /\ mapPhase = "countries"
    /\ animationActive /\ rafPending > 0 /\ frames = 1
    /\ Len(particles) = 3
    /\ \A k \in 1..Len(particles) : particles[k].progress = SPEED_FACTOR

-----------------------------------------------------------------------------
(* C24: a region without a data record *)

\* no destination of the aggregated flows is the region
NoRecord(countryName) ==
    \A d \in 1..Len(countryRemovalData) :
        countryRemovalData[d].destination # countryName

\* the explicit null state of the filter: null is selected and every particle
\* has the look of 'no data'
NullFilter(ps, selected) ==
    /\ selected = KeyNull
    /\ \A k \in 1..Len(ps) : Visual(ps)[k] = FadedLook

C24_Hover(countryName) ==
    MouseMove(countryName) /\ NoRecord(countryName)
        => /\ NullFilter(particles', selectedCountryName')
           /\ countryTooltip' = "noData"
           /\ UNCHANGED <<consoleErrors, aborted, camera>>

C24_Click(countryName) ==
    Click(countryName) /\ NoRecord(countryName)
        => /\ NullFilter(particles', selectedCountryName')
           /\ UNCHANGED <<countryTooltip, consoleErrors, aborted, camera>>

-----------------------------------------------------------------------------
(* C25: the camera target is that of the last entered step *)

\* the camera of a step on a forward pass
Target(step) == FirstPass(step).camera

\* a camera request that no click made changes the target
Retargeted ==
    \/ camera' # camera /\ camera'.kind # "country"
    \/ detCamera' # detCamera

\* the camera of the script that runs
Authoritative(mapCamera, detentionCamera) ==
    IF script = "map" THEN mapCamera ELSE detentionCamera

\* C25: the camera target is that of the most recent request; every step-enter
\* event leaves the target of its step, and no event but a click gives the
\* camera a target other than that of the most recently entered step.
C25_CameraFollowsLastStep ==
    [][/\ StepEnter => Authoritative(camera', detCamera') = Target(currentStep')
       /\ Retargeted => Authoritative(camera', detCamera') = Target(currentStep')]_vars

-----------------------------------------------------------------------------
(* C26: the loop runs once the intro step was entered and the canvas exists *)

\* the intro step was entered: its handler set the flag of the loop
IntroEntered == IF script = "map" THEN animationActive ELSE detentionAnimationActive

\* the canvas of the script exists
CanvasCreated == IF script = "map" THEN canvas ELSE detPhase = "ready"

\* a next frame is scheduled
LoopRunning == IF script = "map" THEN rafPending > 0 ELSE detRafPending > 0

\* C26: whenever the intro step has been entered and the canvas has been
\* created, in either order, a next frame of the particle loop is scheduled.
C26_LoopRunsAfterInit ==
    script \in {"map", "detention"} /\ IntroEntered /\ CanvasCreated => LoopRunning

-----------------------------------------------------------------------------
(* C27: what a frame does to the progress of the particles *)

\* a call of drawParticles that passes its guard: a frame callback, or the
\* call of the intro step that starts the loop
MapTick ==
    /\ canvas
    /\ \/ MapFrame(MaxFrames, {}) /\ animationActive
       \/ EnterIntro({}) /\ ~animationActive

\* the same for drawDetentionParticles
DetentionTick ==
    \/ DetentionFrame(MaxFrames, {}, {}) /\ detentionAnimationActive
    \/ DetentionEnterIntro({}) /\ ~detentionAnimationActive

\* the progress of every particle went up by its speed, or back to its
\* startOffset where the sum reached 1
AdvancedBySpeed(before, after) ==
    /\ Len(after) = Len(before)
    /\ \A k \in 1..Len(before) :
          after[k].progress =
             IF before[k].progress + before[k].speed >= ONE
             THEN before[k].startOffset
             ELSE before[k].progress + before[k].speed

\* C27: on every frame on which the ambient motion is not halted the progress
\* of every particle, drawn or not, goes up by exactly its speed (and wraps to
\* startOffset at 1), whatever the time since the frame before; on every frame
\* on which stopBackgroundParticles is set, no background particle changes and
\* none is drawn.
C27_FrameAdvancesBySpeed ==
    [][/\ MapTick => AdvancedBySpeed(particles, particles')
       /\ DetentionTick /\ ~stopBackgroundParticles'
             => AdvancedBySpeed(detentionParticles, detentionParticles')
       /\ DetentionTick /\ stopBackgroundParticles'
             => detentionParticles' = detentionParticles /\ detDrawn' = {}]_vars

\* frames went by, then the interactive step halted the particles where they
\* were: one stands part-way along its path, none is drawn
C27_Witness ==
    /\ script = "detention" /\ stopBackgroundParticles
    /\ frames > 2 /\ detRafPending > 0
    /\ detDrawn = {} /\ everDrawn # {}
    /\ \E k \in 1..Len(detentionParticles) :
          detentionParticles[k].progress > detentionParticles[k].startOffset

-----------------------------------------------------------------------------
(* C28: the position sampled for a drawn particle *)

\* const normalizedProgress = (p.progress - p.startOffset) / (1 - p.startOffset)
NormalizedProgress(p) == ((p.progress - p.startOffset) * ONE) \div (ONE - p.startOffset)

\* const currentDist = p.distance * normalizedProgress
\* (the product is taken in two parts to stay within 32 bits)
CurrentDist(p) ==
    (p.distance \div ONE) * NormalizedProgress(p)
        + ((p.distance % ONE) * NormalizedProgress(p)) \div ONE

SampledOnPath(p) ==
    /\ p.startOffset >= 0 /\ p.startOffset < ONE
    /\ NormalizedProgress(p) >= 0 /\ NormalizedProgress(p) < ONE
    /\ CurrentDist(p) >= 0 /\ CurrentDist(p) <= p.distance

\* C28: every particle drawn on a frame has its startOffset in [0, 1), its
\* normalized progress in [0, 1) and its sampled distance between 0 and the
\* length of its path.
C28_SampleWithinPath ==
    /\ \A k \in drawn : SampledOnPath(particles[k])
    /\ \A k \in detDrawn : SampledOnPath(detentionParticles[k])

\* a drawn particle whose startOffset is the largest the generator gives, at
\* the start of its path, and a drawn particle under way
C28_Witness ==
    /\ script = "map"
    /\ \E k \in drawn :
          /\ particles[k].startOffset = ONE - 1
          /\ NormalizedProgress(particles[k]) = 0
    /\ \E k \in drawn :
          /\ particles[k].startOffset > 0
          /\ particles[k].progress > particles[k].startOffset
          /\ CurrentDist(particles[k]) > 0

-----------------------------------------------------------------------------
(* C29: the interactive step while the initialization completes *)

\* the interactive step is and stays the current step
InInteractiveStep ==
    /\ currentStep \in TerminalSteps
    /\ currentStep' = currentStep

\* C29: while the interactive step is the current step, no event, the end of
\* the 'load' handler included, disables pan and zoom once they are enabled or
\* hides the country layers once they are visible.
C29_InteractiveStaysEnabled ==
    [][InInteractiveStep =>
          /\ interactive => interactive'
          /\ detInteractive => detInteractive'
          /\ layersVisible => layersVisible']_vars

-----------------------------------------------------------------------------
(* C30: the country layers while the intro step is current *)

\* C30: whenever the intro step is the current step, the country layers are
\* inactive: countriesActive is false, the layers are hidden, and the hover and
\* click handlers of the layer return at once; a timer of the interactive step
\* that fires after the intro step was entered changes nothing of it.
C30_IntroKeepsCountriesInactive ==
    script = "map" /\ currentStep = "intro" => ~countriesActive /\ ~layersVisible


-----------------------------------------------------------------------------
(* C31: the filter after the pointer left the country layer *)

\* C31: when the 'mouseleave' handler returns and no click selected a country
\* since the last step reset the selection, no filter is in force: no
\* destination is selected and every particle has its default look.  Hovering
\* over a country with data, without a click, leaves no filter behind.
C31_LeaveRestoresFilter ==
    [][MouseLeave /\ clickedCountry = KeyNull
          => Unfiltered(particles', selectedCountryName')]_vars


-----------------------------------------------------------------------------
(* C32: the frame requests that are pending *)

\* C32: at every moment at most one requestAnimationFrame request for
\* drawParticles and at most one for drawDetentionParticles is pending,
\* whatever steps were entered, the intro step repeatedly included, and
\* whatever frames ran.
C32_OneLoopPerVisualization == rafPending <= 1 /\ detRafPending <= 1

\* the intro step of the map was entered again while its loop was running, and
\* frames ran
C32_Witness ==
    /\ script = "map" /\ currentStep = "intro" /\ previousStep = "intro"
    /\ animationActive /\ rafPending = 1 /\ frames >= 1


-----------------------------------------------------------------------------
(* C33: the highlighted person that is visible *)

\* C33: in the detention section, after any sequence of step enters and
\* frames, at most one of the two highlighted persons is visible, and a person
\* is visible exactly when currentHighlight names that person.
C33_VisiblePersonIsHighlight ==
    script = "detention" =>
       /\ Cardinality({personKey \in Persons : animatedPoints[personKey].visible}) <= 1
       /\ \A personKey \in Persons :
             animatedPoints[personKey].visible <=> currentHighlight = personKey

\* the story step of the second person was entered from the story step of the
\* first, after frames ran
C33_Witness ==
    /\ script = "detention"
    /\ currentStep = "story2-step" /\ previousStep = "story1-step"
    /\ currentHighlight = "person2" /\ animatedPoints["person2"].visible
    /\ frames >= 1


-----------------------------------------------------------------------------
(* C34: the animated point and the counter of a highlighted person *)

\* the highlighted persons whose point is shown on a path
Travelling(points) ==
    {personKey \in Persons :
        points[personKey].visible /\ HasPath(detentionHighlights, personKey)}

C34_Range ==
    \A personKey \in Travelling(animatedPoints) :
       LET point == animatedPoints[personKey]
       IN  /\ 0 <= point.currentSegment /\ point.currentSegment <= PathStops - 2
           /\ 0 <= point.progress /\ point.progress <= ONE
           /\ 1 <= updateDetentionCounter(point)
           /\ updateDetentionCounter(point) <= PathStops

C34_Frame ==
    DetentionFrame(JourneyFrames, {}, {}) =>
       \A personKey \in Travelling(animatedPoints) :
          updateDetentionCounter(animatedPoints'[personKey])
             >= updateDetentionCounter(animatedPoints[personKey])

\* C34: for a visible highlighted person with a path of n >= 2 facilities,
\* after every frame 0 <= currentSegment <= n - 2 and 0 <= progress <= 1, the
\* counter shows 'Detention k of n' with 1 <= k <= n, and no frame makes k
\* smaller.
C34_PointAndCounterInRange == []C34_Range /\ [][C34_Frame]_vars

\* a journey arrived: the point is at the end of the last segment and the
\* counter shows n of n
C34_Witness ==
    /\ script = "detention"
    /\ "person1" \in Travelling(animatedPoints)
    /\ animatedPoints["person1"].currentSegment = PathStops - 2
    /\ animatedPoints["person1"].progress = ONE
    /\ updateDetentionCounter(animatedPoints["person1"]) = PathStops


-----------------------------------------------------------------------------
(* C35: the end of a journey *)

\* the point is at the end of the last segment
Arrived(point) == point.currentSegment = PathStops - 2 /\ point.progress = ONE

\* the frames a point still needs to arrive
Remaining(point) ==
    (PathStops - 2 - point.currentSegment) * FramesPerSegment
       + CeilDiv(ONE - point.progress, SEGMENT_ANIMATION_SPEED)

C35_Frame ==
    DetentionFrame(JourneyFrames, {}, {}) =>
       \A personKey \in Travelling(animatedPoints) :
          LET point == animatedPoints[personKey]
          IN  IF Arrived(point)
              THEN animatedPoints'[personKey] = point
              ELSE /\ animatedPoints'[personKey].visible
                   /\ Remaining(animatedPoints'[personKey]) < Remaining(point)

\* C35: the journey of a highlighted person does not loop.  Every frame takes
\* a visible point that has not arrived one frame closer to the end of the
\* last segment (currentSegment = n - 2, progress = 1), so that the point
\* arrives if frames keep running and no step resets it, and every frame leaves
\* a point that has arrived exactly where it is.
C35_JourneyEndsAndStays == [][C35_Frame]_vars

\* the point of person1 has arrived by the last frame checked, under the
\* story step entered from the intro step
C35_Witness ==
    /\ script = "detention"
    /\ currentStep = "story1-step" /\ previousStep = "intro-step"
    /\ "person1" \in Travelling(animatedPoints)
    /\ Arrived(animatedPoints["person1"])
    /\ frames = JourneyFrames


-----------------------------------------------------------------------------
(* C36: the interaction flags and the visibility of the overlay layers *)

\* C36: once the country layers exist countriesActive is true exactly when
\* they are visible, and once the destination layers exist overlayActive is
\* true exactly when they are visible, whatever the order of the step enters
\* and of the creation of the layers.
C36_FlagsAgreeWithVisibility ==
    script = "map" =>
       /\ CountryLayersExist => (countriesActive <=> layersVisible)
       /\ DestinationLayersExist => (overlayActive <=> overlayVisible)


-----------------------------------------------------------------------------
(* C37: the country in hover state *)

\* C37: after any sequence of mousemove and mouseleave events at most one
\* country has the hover feature-state, and it is the country that
\* hoveredCountryName names; when hoveredCountryName is null no country has it.
C37_OneHoveredCountry ==
    script = "map" =>
       /\ Cardinality(hoverState) <= 1
       /\ hoverState = IF hoveredCountryName = KeyNull THEN {}
                       ELSE {hoveredCountryName.s}

\* the pointer is over a country without data, which alone has the hover
\* state, and the particles are faded
C37_Witness ==
    /\ script = "map"
    /\ hoveredCountryName = KeyName("Atlantis") /\ hoverState = {"Atlantis"}
    /\ countryTooltip = "noData"
    /\ \E k \in 1..Len(particles) : particles[k].color = "gray"


-----------------------------------------------------------------------------
(* C38: the country filter of the timeline section *)

\* the card the offset line is in, once the step events of the last scroll
\* are delivered
ActiveStep == IF timelinePending = {} THEN timelineLine ELSE -1

\* C38: in the timeline section the country filter is hidden whenever the
\* active step is the card of index 0 or 1 and whenever the section is not in
\* view, whichever of the exit of card 1 and the enter of a neighbouring card
\* is delivered first, scrolling down or up.
C38_FilterHiddenWhileReading ==
    script = "timeline" =>
       /\ ActiveStep \in {0, 1} => ~timelineFilter
       /\ ~timelineSection /\ timelinePending = {} => ~timelineFilter


-----------------------------------------------------------------------------
(* C39: the stages of getDestinationDataForCountry *)

\* the region has a stage and a key that passes the test of the stage
SomeStageMatches(data, countryName) ==
    \E n \in 1..Len(StageOrder), d \in 1..Len(data) :
       StageMatches(StageOrder[n], Keys(data)[d], countryName)

\* no stage before stage n has a key that passes its test
NoEarlierStage(data, countryName, n) ==
    \A h \in 1..(n - 1), d \in 1..Len(data) :
       ~StageMatches(StageOrder[h], Keys(data)[d], countryName)

\* the stages by their usual names: exact key, mapped name, case-insensitive,
\* normalized equality, substring containment, first-word prefix
NamedStages ==
    <<"exact", "mapped", "caseInsensitive", "normalized", "partial", "firstWord">>

\* stage n of NamedStages is the first of them with a key that passes its test
FirstNamedStage(data, countryName, n) ==
    /\ \E d \in 1..Len(data) : StageMatches(NamedStages[n], Keys(data)[d], countryName)
    /\ \A h \in 1..(n - 1), d \in 1..Len(data) :
          ~StageMatches(NamedStages[h], Keys(data)[d], countryName)

\* the destination a hover over countryName filtered the particles by
C39_Hover(countryName) ==
    MouseMove(countryName) /\ canvas /\ Len(particles) > 0 =>
       LET data == countryRemovalData
           found == selectedCountryName'
       IN  /\ (\E d \in 1..Len(data) : Keys(data)[d] = countryName)
                 => found = KeyName(countryName)
           /\ found = KeyNull <=> ~SomeStageMatches(data, countryName)
           /\ found # KeyNull =>
                 \E n \in 1..Len(StageOrder) :
                    /\ StageMatches(StageOrder[n], found.s, countryName)
                    /\ NoEarlierStage(data, countryName, n)
           /\ \A n \in 1..Len(NamedStages) :
                 FirstNamedStage(data, countryName, n) =>
                    /\ found # KeyNull
                    /\ StageMatches(NamedStages[n], found.s, countryName)

\* C39: getDestinationDataForCountry tries its stages in one order and returns
\* a record of the first stage that matches: a region whose name is a key gets
\* the record of that key, a region gets null only when no stage matches, and
\* a record found is one that passes the test of the first stage with a match.
\* (A later stage can find the record of another country: see the witness.)
C39_FirstMatchingStageWins ==
    [][\A countryName \in LookupCountries : C39_Hover(countryName)]_vars

\* a region that is no destination was given the record of another country:
\* the pointer is over Niger and the particles are filtered by Nigeria
C39_Witness ==
    /\ script = "map"
    /\ \A d \in 1..Len(countryRemovalData) : Keys(countryRemovalData)[d] # "Niger"
    /\ hoveredCountryName = KeyName("Niger")
    /\ selectedCountryName = KeyName("Nigeria")

=============================================================================
